---- MODULE Spec2Model ----
(***************************************************************************)
(* The protocol adapter layer of adcp-client-python: the MCP adapter's     *)
(* lazy session acquisition with URL fallback (protocols/mcp.py) and the   *)
(* A2A adapter's pooled HTTP client (protocols/a2a.py), as they run under  *)
(* asyncio: several coroutines (tasks) call into one adapter, each runs    *)
(* without interruption from one `await` to the next, and any suspended    *)
(* task may be the next one to resume.                                     *)
(***************************************************************************)
EXTENDS Integers, Sequences, FiniteSets, TLC

(* ------------------------------ bounds -------------------------------- *)
\* Coroutines that may call into the adapter.
NumTasks == 2
\* Operations (call_tool, list_tools, close, ...) started in one behaviour.
MaxOps == 3
\* Operations that may start while another one is in progress.
MaxOverlap == 1
\* The same, where only the A2A adapter's HTTP client is followed.
PoolOverlap == 2
\* Agents of a multi-agent client.
NumAgents == 3
\* Artifacts of an A2A reply, and parts of an artifact.
MaxArtifacts == 2
MaxParts == 2

Tasks == 1 .. NumTasks
\* Names for the exit stacks and HTTP clients alive at one time: a task refers
\* to at most three stacks, the adapter to one and its session to two more.
StackIds == 1 .. (3 * NumTasks + 3)
ClientIds == 1 .. MaxOps

\* Python's None, where the value is an object reference (ids start at 1).
None == 0
\* An optional value is a set: {} is None, {x} is x.
Nothing == {}
Some(x) == {x}

(* ------------------------- URIs and candidates ------------------------ *)
\* A URI is its scheme followed by the characters after "://".
Scheme(uri) == uri[1]
McpSuffix == <<"/", "m", "c", "p">>
ConfigURIs ==
    { <<"https", "h", "/">>,
      <<"https", "h", "/", "m", "c", "p", "/">>,
      <<"https", "h", "/", "m", "c", "p">>,
      <<"ftp", "h">> }

RECURSIVE RStrip(_)
\* str.rstrip("/")
RStrip(s) ==
    IF s # <<>> /\ s[Len(s)] = "/" THEN RStrip(SubSeq(s, 1, Len(s) - 1)) ELSE s

\* str.endswith(suffix)
EndsWith(s, suffix) ==
    /\ Len(s) >= Len(suffix)
    /\ SubSeq(s, Len(s) - Len(suffix) + 1, Len(s)) = suffix

\* The candidate list with /mcp appended whatever the URI ends in.
UrlsToTryAlways(uri) == <<uri, RStrip(uri) \o McpSuffix>>

\* The candidate list with the fallback first: the order a slip would give.
UrlsToTryFallbackFirst(uri) ==
    IF ~EndsWith(RStrip(uri), McpSuffix)
    THEN <<RStrip(uri) \o McpSuffix, uri>>
    ELSE <<uri>>

\* urls_to_try: the configured URI, then the URI with /mcp appended.
UrlsToTry(uri) ==
    IF ~EndsWith(RStrip(uri), McpSuffix)
    THEN <<uri, RStrip(uri) \o McpSuffix>>
    ELSE <<uri>>

(* --------------------------- error messages --------------------------- *)
\* An exception message is a sequence of words.
Lower(w) ==
    CASE w = "Timeout" -> "timeout"
      [] w = "Unauthorized" -> "unauthorized"
      [] w = "HTTP" -> "http"
      [] w = "Refused" -> "refused"
      [] OTHER -> w

\* `word in str(e).lower()`
Contains(msg, word) == \E i \in 1 .. Len(msg) : Lower(msg[i]) = word

\* Messages of the exceptions the MCP SDK calls raise.
ErrMsgs ==
    { <<"refused">>, <<"Timeout">>, <<"403", "timeout">> }

\* 'NoneType' object has no attribute ...
AttributeErrorMsg == <<"NoneType", "attribute">>
\* The awaited call completed without raising.
Ok == <<"ok">>
NoError == <<>>

\* The class raised once every candidate failed.
Classify(msg) ==
    IF Contains(msg, "401") \/ Contains(msg, "403") \/ Contains(msg, "unauthorized")
    THEN "ADCPAuthenticationError"
    ELSE IF Contains(msg, "timeout")
         THEN "ADCPTimeoutError"
         ELSE "ADCPConnectionError"

\* The message of the classified error: a prefix, then str(last_error).
ClassifiedMsg(msg) ==
    (CASE Classify(msg) = "ADCPAuthenticationError" -> <<"Authentication", "failed">>
       [] Classify(msg) = "ADCPTimeoutError" -> <<"Connection", "timeout">>
       [] OTHER -> <<"Failed", "to", "connect">>) \o msg

(* ------------------------------ results ------------------------------- *)
\* TaskResult: fields not given keep their defaults (None, success=True).
TaskResult(status, data, error, success, metadata) ==
    [ status |-> status, data |-> data, submitted |-> Nothing,
      needs_input |-> Nothing, error |-> error, success |-> success,
      metadata |-> metadata, debug_info |-> Nothing ]

\* What a finished operation gave its caller.
NoResult ==
    [ task |-> 0, op |-> "none", out |-> [kind |-> "none"], attempts |-> <<>>,
      teardown |-> FALSE ]
Returned(v) == [kind |-> "return", value |-> v]
Raised(exc, msg) == [kind |-> "raise", exc |-> exc, msg |-> msg]
Pending == <<"pending">>
NoneValue == [t |-> "None"]
\* No call through the layers is followed.
NoInput == [kind |-> "none"]
\* No fan-out is followed.
\*   agents: what each configured agent is and answers
\*   slots:  the per-agent calls that completed, with their outcome
\*   order:  the agents in the order their calls completed
\*   out:    what the fan-out method returned or raised, Nothing before it
NoFan == [agents |-> <<>>, slots |-> <<>>, order |-> <<>>, out |-> Nothing]
\* No scope is followed.
\*   phase:  "outside" (the client is constructed), "inside" (the body runs),
\*           "exiting" (__aexit__ runs), "left"
\*   body:   how the body ended: "returned" or "raised"
\*   closes: the close() calls __aexit__ made
NoScope == [phase |-> "none", body |-> "none", closes |-> 0]
\* No preview generation is followed.
\*   formats: the formats given to add_preview_urls_to_formats
\*   tasks:   one process_format coroutine per format
\*   cache:   PreviewURLGenerator._preview_cache, a set of <<key, data>>
\*   order:   the coroutines in the order they completed
\*   out:     the list asyncio.gather returned
NoPreview == [formats |-> <<>>, tasks |-> <<>>, cache |-> {}, order |-> <<>>, out |-> Nothing]

\* Content lists of an MCP tool reply.
McpContents == { <<>>, <<"text">> }
\* Tool names of an MCP list_tools reply.
McpTools == { <<"get_products">> }

(* ------------------------------- state -------------------------------- *)
VARIABLES
    agent_config,   \* AgentConfig (fixed after construction)
    session,        \* MCPAdapter._session: None or the session of attempt a
    exitStack,      \* MCPAdapter._exit_stack: None or an AsyncExitStack
    heap,           \* the AsyncExitStack objects and what they hold (see InitHeap)
    client,         \* A2AAdapter._client: None or an httpx.AsyncClient
    clientState,    \* each AsyncClient: "none", "open", "closing" (aclose running), "closed"
    clientAclose,   \* aclose() calls made on each client
    pc,             \* where each task is suspended ("idle": in no operation)
    op,             \* the operation each task is in
    loc,            \* each task's local variables
    log,            \* the connection attempts of each task's current acquisition
    result,         \* the outcome of the operation the last step ended, if it ended one
    ops,            \* operations started since the initial state
    overlaps_left,  \* operations that may still start while another one is in progress
    input,          \* what one call through the layers is given (see Inputs)
    response_type,  \* the response type the client passes to _parse_response
    raw_result,     \* the outcome of the adapter's call, Nothing before it
    typed_result,   \* the outcome of _parse_response, Nothing before it
    unwrapped,      \* the outcome of SimpleAPI._unwrap, Nothing before it
    sent,           \* the request the adapter sent (url, headers), Nothing before it
    fetched,        \* the outcome of the agent-card fetch, Nothing before it
    fan,            \* one fan-out of the multi-agent client (see NoFan)
    scope,          \* one `async with ADCPClient(config)` block (see NoScope)
    preview         \* one add_preview_urls_to_formats call (see NoPreview)

mcpVars == <<session, exitStack, heap>>
a2aVars == <<client, clientState, clientAclose>>
taskVars == <<pc, op, loc, log, result, ops>>
\* What the components around the adapters keep.
auxVars == <<fan, scope, preview>>
pipeVars == <<input, response_type, raw_result, typed_result, unwrapped, sent, fetched, auxVars>>

\* Nothing but the adapter is in use.
AuxIdle == fan = NoFan /\ scope = NoScope /\ preview = NoPreview
vars == <<agent_config, mcpVars, a2aVars, taskVars, overlaps_left, pipeVars>>

\* A task's locals: the loop index, last_error, the stack the pending
\* enter_async_context was called on (stack for the transport, reg for the
\* session), old_stack, the session or HTTP client the request in flight was
\* sent over or the client being closed, and whether that resource's teardown
\* had begun when the request was sent.
InitLoc ==
    [ url_idx |-> 0, last_error |-> NoError, stack |-> None, reg |-> None,
      old_stack |-> None, session |-> None, client |-> None, stale |-> FALSE ]

\* The contexts of attempt a: its transport and its ClientSession.
Transport(a) == <<"transport", a>>
Session(a) == <<"session", a>>

\* The exit stacks before any exists.
\*   state:  each AsyncExitStack: "none", "open", "closing" (aclose running),
\*           "closed" (aclose returned)
\*   items:  the contexts entered on each stack and not exited yet
\*   done:   the contexts each stack's aclose has exited
\*   init:   the sessions whose initialize() returned
\*   aclose: the aclose() calls made on each stack
\*   leaked: kinds of contexts left open that nothing can close any more
InitHeap ==
    [ state |-> [k \in StackIds |-> "none"], items |-> [k \in StackIds |-> {}],
      done |-> [k \in StackIds |-> {}], init |-> {},
      aclose |-> [k \in StackIds |-> 0], leaked |-> {} ]

\* aclose() has returned on the stack that held the context.
Closed(item) == \E k \in StackIds : item \in heap.done[k]

\* aclose() has at least begun on the stack that holds the context.
TornDown(item) ==
    \/ Closed(item)
    \/ \E k \in StackIds : item \in heap.items[k] /\ heap.state[k] = "closing"

\* The session of attempt a, or the transport under it, is being torn down.
SessionDead(a) == TornDown(Session(a)) \/ TornDown(Transport(a))

\* AsyncExitStack(): a stack no one uses yet.
NewStack(h) == CHOOSE k \in StackIds :
    /\ h.state[k] = "none"
    /\ \A j \in StackIds : j < k => h.state[j] # "none"

\* enter_async_context pushes the entered context on the stack, whatever
\* became of the stack while the context was being entered.
Push(h, k, item) == [h EXCEPT !.items[k] = @ \cup {item}]

\* aclose() is called on stack k.
StartAclose(h, k) ==
    [h EXCEPT !.state[k] = "closing", !.aclose[k] = @ + 1]

\* aclose() on stack k returns: it has exited every context on the stack.
EndAclose(h, k) ==
    [h EXCEPT !.state[k] = "closed", !.done[k] = @ \cup h.items[k], !.items[k] = {}]

\* The stacks and attempts something still refers to.
Roots ==
    ({exitStack, session} \cup
     UNION { {loc[t].stack, loc[t].reg, loc[t].old_stack, loc[t].session} \cup
             {log[t][i].att : i \in 1 .. Len(log[t])} : t \in Tasks }) \ {None}

\* Python frees an object once nothing refers to it: the stacks out of reach
\* leave the state, and what an open one held stays open for good.
Collect(h, roots) ==
    LET keep == roots \cup {k \in StackIds : \E a \in roots :
                               Session(a) \in h.items[k] \cup h.done[k]}
        lost == StackIds \ keep
    IN  [ state |-> [k \in StackIds |-> IF k \in keep THEN h.state[k] ELSE "none"],
          items |-> [k \in StackIds |-> IF k \in keep THEN h.items[k] ELSE {}],
          done |-> [k \in StackIds |-> IF k \in keep THEN h.done[k] ELSE {}],
          init |-> h.init \cap keep,
          aclose |-> [k \in StackIds |-> IF k \in keep THEN h.aclose[k] ELSE 0],
          leaked |-> h.leaked \cup UNION {{item[1] : item \in h.items[k]} : k \in lost} ]

\* The step leaves the exit stacks as h.  (The last conjunct of its action:
\* the references of the new state are read.)
SetHeap(h) == heap' = Collect(h, Roots')

\* httpx.AsyncClient(limits=limits): a client no one uses yet.
NewClient == CHOOSE c \in ClientIds :
    /\ clientState[c] = "none"
    /\ \A j \in ClientIds : j < c => clientState[j] # "none"

\* The step leaves the HTTP clients as cs, with ac aclose() calls made.
SetClients(cs, ac) ==
    /\ clientState' = cs
    /\ clientAclose' = ac

\* No task is in an operation.
Idle == \A t \in Tasks : pc[t] = "idle"

\* A new operation runs as the lowest task that is not running one: which
\* task object carries an operation makes no difference to the adapter.
FreeSlot(t) == pc[t] = "idle" /\ \A u \in Tasks : u < t => pc[u] # "idle"

\* Task t may start an operation: the scheduler's bounds.
Admit(t) ==
    /\ FreeSlot(t)
    /\ ops < MaxOps
    /\ ops' = ops + 1
    /\ IF Idle
       THEN UNCHANGED overlaps_left
       ELSE /\ overlaps_left > 0
            /\ overlaps_left' = overlaps_left - 1

\* The adapter as __init__ leaves it, for each configuration.
\* AgentConfig.  auth_token is Nothing for None; timeout is in seconds.
AgentConfig(protocol, agent_uri, auth_token, auth_type, auth_header, debug) ==
    [ id |-> "agent", protocol |-> protocol, agent_uri |-> agent_uri,
      auth_token |-> auth_token, auth_type |-> auth_type, auth_header |-> auth_header,
      timeout |-> 30, mcp_transport |-> "streamable_http", debug |-> debug ]

\* A config that leaves every optional field at its default.
DefaultConfig(protocol, agent_uri) ==
    AgentConfig(protocol, agent_uri, Nothing, "token", "x-adcp-auth", FALSE)

\* The configs that differ in the fields the request headers and the debug
\* record are built from.
AuthConfigs(protocol, agent_uri) ==
    { AgentConfig(protocol, agent_uri, token, type, header, debug) :
        token \in {Nothing, Some(""), Some("s3cret"), Some("t0ken")},
        type \in {"token", "bearer", "basic"},
        header \in {"x-adcp-auth", "Authorization"},
        debug \in BOOLEAN }

Constructed ==
    /\ agent_config \in {DefaultConfig(p, u) : p \in {"mcp", "a2a"}, u \in ConfigURIs}
    /\ (agent_config.protocol = "a2a" => agent_config.agent_uri = <<"https", "h", "/">>)
    /\ session = None
    /\ exitStack = None
    /\ heap = InitHeap
    /\ client = None
    /\ clientState = [c \in ClientIds |-> "none"]
    /\ clientAclose = [c \in ClientIds |-> 0]
    /\ pc = [t \in Tasks |-> "idle"]
    /\ op = [t \in Tasks |-> "none"]
    /\ loc = [t \in Tasks |-> InitLoc]
    /\ log = [t \in Tasks |-> <<>>]
    /\ result = NoResult
    /\ ops = 0
    /\ input = NoInput
    /\ response_type = "Any"
    /\ raw_result = Nothing
    /\ typed_result = Nothing
    /\ unwrapped = Nothing
    /\ sent = Nothing
    /\ fetched = Nothing
    /\ AuxIdle

Init ==
    /\ Constructed
    /\ overlaps_left = MaxOverlap

(* ------------------------- MCP adapter: calls -------------------------- *)
\* An exception escapes call_tool's try block.
CallToolPropagates(exc, msg) == Raised(exc, msg)

\* call_tool's except clause: any Exception becomes a FAILED result.
CallToolExcept(exc, msg) ==
    Returned(TaskResult("failed", Nothing, Some(msg), FALSE, Nothing))

\* call_tool's result for a reply.
CallToolReturn(content) ==
    Returned(TaskResult("completed", Some([t |-> "list", items |-> content]),
                        Nothing, TRUE, Nothing))

\* Every operation turns the exception into a FAILED result.
OnExceptionAsValue(o, exc, msg) == CallToolExcept(exc, msg)

\* list_tools has no try block: the exception reaches its caller.
OnException(o, exc, msg) ==
    IF o = "call_tool" THEN CallToolExcept(exc, msg) ELSE Raised(exc, msg)

\* last_error keeps the first error instead of the latest.
KeepFirstError(old, e) == IF old = NoError THEN e ELSE old

\* last_error = e
LastError(old, e) == e

\* Operation o of task t ends and its caller gets the outcome; l: the
\* connection attempts the operation made; teardown: it ends by resuming
\* from the aclose() of close().
FinishWith(t, o, outcome, l) ==
    /\ pc' = [pc EXCEPT ![t] = "idle"]
    /\ op' = [op EXCEPT ![t] = "none"]
    /\ loc' = [loc EXCEPT ![t] = InitLoc]
    /\ log' = [log EXCEPT ![t] = <<>>]
    /\ result' = [ task |-> t, op |-> o, out |-> outcome, attempts |-> l,
                   teardown |-> pc[t] \in {"closing", "a2a_closing"} ]

Finish(t, o, outcome) == FinishWith(t, o, outcome, log[t])

\* Task t, in operation o, suspends at the await p with the locals l.
Suspend(t, o, p, l) ==
    /\ pc' = [pc EXCEPT ![t] = p]
    /\ op' = [op EXCEPT ![t] = o]
    /\ loc' = [loc EXCEPT ![t] = l]
    /\ result' = NoResult

\* Of an attempt that is no longer the last one, the log keeps that it
\* failed, not how.
Failed == <<"failed">>
Settled(l) ==
    [i \in 1 .. Len(l) |->
        [l[i] EXCEPT !.outcome = IF @ \in {Ok, Pending} THEN @ ELSE Failed]]

\* The last attempt of the log gets its outcome.
Mark(l, outcome) == [l EXCEPT ![Len(l)].outcome = outcome]

\* session.call_tool / session.list_tools is sent over the session r that
\* _get_session returned; r = None raises AttributeError.
SendRequest(t, o, r) ==
    LET l == IF log[t] = <<>> THEN <<>> ELSE Mark(log[t], Ok)
    IN  IF r = None
        THEN FinishWith(t, o, OnException(o, "AttributeError", AttributeErrorMsg), l)
        ELSE /\ Suspend(t, o, "calling",
                        [InitLoc EXCEPT !.session = r, !.stale = SessionDead(r)])
             /\ log' = [log EXCEPT ![t] = l]

\* self._exit_stack = AsyncExitStack(), and the transport of candidate i is
\* entered on it.  h: the exit stacks as the step changed them so far.
\* l: the attempts so far.
Attempt(t, o, i, e, h, l) ==
    /\ exitStack' = NewStack(h)
    /\ Suspend(t, o, "transport",
               [InitLoc EXCEPT !.url_idx = i, !.last_error = e, !.stack = NewStack(h)])
    /\ log' = [log EXCEPT ![t] = Settled(l) \o
                  <<[url |-> UrlsToTry(agent_config.agent_uri)[i],
                     att |-> NewStack(h), outcome |-> Pending]>>]

AttemptHeap(h) == [h EXCEPT !.state[NewStack(h)] = "open"]

\* The loop goes on to another candidate.
MoreUrls(t) ==
    LET urls == UrlsToTry(agent_config.agent_uri)
    IN  urls[loc[t].url_idx] # urls[Len(urls)]

\* The end of one failed attempt: the next candidate, or the classified
\* error of the last one.
Retry(t, e, h, l) ==
    IF MoreUrls(t)
    THEN Attempt(t, op[t], loc[t].url_idx + 1, e, h, l)
    ELSE /\ FinishWith(t, op[t], OnException(op[t], Classify(e), ClassifiedMsg(e)), l)
         /\ UNCHANGED exitStack

RetryHeap(t, h) == IF MoreUrls(t) THEN AttemptHeap(h) ELSE h

\* The except clause of an attempt that raised e: detach the adapter's
\* current exit stack, if there is one, and await its aclose; then go on.
Except(t, e, h) ==
    LET last == LastError(loc[t].last_error, e)
    IN  IF exitStack # None
        THEN /\ exitStack' = None
             /\ session' = None
             /\ Suspend(t, op[t], "cleanup",
                        [loc[t] EXCEPT !.last_error = last, !.old_stack = exitStack])
             /\ log' = [log EXCEPT ![t] = Mark(@, e)]
        ELSE /\ Retry(t, last, h, Mark(log[t], e))
             /\ UNCHANGED session

ExceptHeap(t, h) ==
    IF exitStack # None THEN StartAclose(h, exitStack) ELSE RetryHeap(t, h)

\* call_tool / list_tools begins: _get_session up to its first await.
\* (list_tools acquires its session as call_tool does: it runs where no
\* operation can overlap it any more.)
BeginCall(t, o) ==
    /\ agent_config.protocol = "mcp"
    /\ Admit(t)
    /\ (o = "list_tools" => overlaps_left = 0)
    /\ UNCHANGED <<agent_config, pipeVars, session, a2aVars>>
    /\ IF session # None
       THEN /\ SendRequest(t, o, session)
            /\ UNCHANGED exitStack
            /\ SetHeap(heap)
       ELSE IF Scheme(agent_config.agent_uri) \notin {"http", "https"}
       THEN /\ Finish(t, o, OnException(o, "ValueError", <<"Unsupported", "scheme">>))
            /\ UNCHANGED exitStack
            /\ SetHeap(heap)
       ELSE /\ Attempt(t, o, 1, NoError, heap, <<>>)
            /\ SetHeap(AttemptHeap(heap))

\* enter_async_context(streamablehttp_client(url) / sse_client(url)) resumes.
TransportDone(t) ==
    /\ pc[t] = "transport"
    /\ UNCHANGED <<agent_config, pipeVars, a2aVars, ops, overlaps_left>>
    /\ \E e \in {Ok} \cup ErrMsgs :
         LET h == IF e = Ok THEN Push(heap, loc[t].stack, Transport(loc[t].stack)) ELSE heap
             x == IF e = Ok /\ exitStack = None THEN AttributeErrorMsg ELSE e
         IN  IF x = Ok
             THEN /\ Suspend(t, op[t], "session_enter", [loc[t] EXCEPT !.reg = exitStack])
                  /\ UNCHANGED <<session, exitStack, log>>
                  /\ SetHeap(h)
             ELSE /\ Except(t, x, h)
                  /\ SetHeap(ExceptHeap(t, h))

\* enter_async_context(ClientSession(read, write)) resumes; the session is
\* stored and initialize() is sent.
SessionEnterDone(t) ==
    /\ pc[t] = "session_enter"
    /\ UNCHANGED <<agent_config, pipeVars, a2aVars, ops, overlaps_left>>
    /\ \E e \in {Ok} \cup ErrMsgs :
         IF e = Ok
         THEN /\ session' = loc[t].stack
              /\ Suspend(t, op[t], "initialize", [loc[t] EXCEPT !.session = loc[t].stack])
              /\ UNCHANGED <<exitStack, log>>
              /\ SetHeap(Push(heap, loc[t].reg, Session(loc[t].stack)))
         ELSE /\ Except(t, e, heap)
              /\ SetHeap(ExceptHeap(t, heap))

\* self._session.initialize() resumes; on success _get_session returns
\* self._session as it is now, and the caller sends its request over it.
InitializeDone(t) ==
    /\ pc[t] = "initialize"
    /\ UNCHANGED <<agent_config, pipeVars, a2aVars, ops, overlaps_left>>
    /\ \E e \in {Ok} \cup ErrMsgs :
         IF e = Ok
         THEN /\ SendRequest(t, op[t], session)
              /\ UNCHANGED <<session, exitStack>>
              /\ SetHeap([heap EXCEPT !.init = @ \cup {loc[t].session}])
         ELSE /\ Except(t, e, heap)
              /\ SetHeap(ExceptHeap(t, heap))

\* old_stack.aclose() of the except clause resumes; whatever it raised is
\* swallowed.
CleanupDone(t) ==
    /\ pc[t] = "cleanup"
    /\ UNCHANGED <<agent_config, pipeVars, session, a2aVars, ops, overlaps_left>>
    /\ LET h == EndAclose(heap, loc[t].old_stack)
       IN  /\ Retry(t, loc[t].last_error, h, log[t])
           /\ SetHeap(RetryHeap(t, h))

\* session.call_tool / session.list_tools resumes.
CallDone(t) ==
    /\ pc[t] = "calling"
    /\ UNCHANGED <<agent_config, pipeVars, session, exitStack, a2aVars, ops, overlaps_left>>
    /\ \E outcome \in
           {OnException(op[t], "McpError", r) : r \in ErrMsgs} \cup
           (IF op[t] = "call_tool"
            THEN {CallToolReturn(content) : content \in McpContents}
            ELSE {Returned([t |-> "tools", names |-> names]) : names \in McpTools}) :
         Finish(t, op[t], outcome)
    /\ SetHeap(heap)

(* ------------------------- MCP adapter: close -------------------------- *)
\* close() leaves the stack it closes in self._exit_stack.
StackKept(k) == k

\* self._exit_stack = None
StackAfterClose(k) == None

\* close() begins: detach the exit stack and the session, start aclose().
BeginClose(t) ==
    /\ agent_config.protocol = "mcp"
    /\ Admit(t)
    /\ UNCHANGED <<agent_config, pipeVars, a2aVars>>
    /\ IF exitStack # None
       THEN /\ exitStack' = StackAfterClose(exitStack)
            /\ session' = None
            /\ Suspend(t, "close", "closing", [InitLoc EXCEPT !.old_stack = exitStack])
            /\ UNCHANGED log
            /\ SetHeap(StartAclose(heap, exitStack))
       ELSE /\ Finish(t, "close", Returned(NoneValue))
            /\ UNCHANGED <<exitStack, session>>
            /\ SetHeap(heap)

\* close()'s aclose() resumes; whatever it raised is swallowed.
CloseDone(t) ==
    /\ pc[t] = "closing"
    /\ UNCHANGED <<agent_config, pipeVars, session, exitStack, a2aVars, ops, overlaps_left>>
    /\ Finish(t, "close", Returned(NoneValue))
    /\ SetHeap(EndAclose(heap, loc[t].old_stack))

(* ----------------------------- A2A adapter ----------------------------- *)
\* JSON values of a reply body.  An object has a status, taskId/contextId
\* (left out: they are copied to metadata as they are) and artifacts; an
\* artifact has parts; a part has a kind and a data or text field, where
\* [t |-> "absent"] is a key the object does not have and [t |-> "null"]
\* is JSON null.
Absent == [t |-> "absent"]
Null == [t |-> "null"]
Str(x) == [t |-> "str", v |-> x]
\* A JSON object payload: its errors array (Absent when it has none),
\* whether it has a products array and whether it has a media_buy_id.
Dict(errors, products) ==
    [t |-> "dict", errors |-> errors, products |-> products, media_buy_id |-> FALSE]
DataPart(d) == [kind |-> "data", data |-> d, text |-> Absent]
TextPart(x) == [kind |-> "text", data |-> Absent, text |-> x]
Artifact(parts) == [parts |-> parts]
Object(status, artifacts) == [t |-> "object", status |-> status, artifacts |-> artifacts]

Products == Dict(Absent, TRUE)
BudgetErrors == Dict([t |-> "list", items |-> <<"budget_exceeded">>], FALSE)
EmptyErrors == Dict([t |-> "list", items |-> <<>>], TRUE)
MediaBuy == [Dict(Absent, FALSE) EXCEPT !.media_buy_id = TRUE]

\* What client.post and response.json() can give the call.
A2AReplies ==
    { [kind |-> "ConnectError"], [kind |-> "ReadTimeout"], [kind |-> "HTTPStatusError"],
      [kind |-> "JSONDecodeError"],
      [kind |-> "json", body |-> [t |-> "list"]],
      [kind |-> "json", body |-> Object(Str("completed"), <<Artifact(<<DataPart(Products)>>)>>)],
      [kind |-> "json", body |-> Object(Str("completed"),
                                        <<Artifact(<<TextPart(Str("done")), DataPart(BudgetErrors)>>)>>)],
      [kind |-> "json", body |-> Object(Str("failed"), <<Artifact(<<TextPart(Str("boom"))>>)>>)],
      [kind |-> "json", body |-> Object(Str("working"), <<>>)],
      [kind |-> "json", body |-> Object(Str("input-required"), <<Artifact(<<DataPart(Null)>>)>>)],
      [kind |-> "json", body |-> Object(Absent, <<>>)] }

\* The exceptions of httpx that derive from httpx.HTTPError.
HTTPErrors == {"ConnectError", "ReadTimeout", "HTTPStatusError"}

\* The data of the last data part of the last artifact, None when the reply
\* has no data part.
ExtractResultStrict(body) ==
    IF body.artifacts = <<>> THEN Nothing
    ELSE LET parts == body.artifacts[Len(body.artifacts)].parts
             data_parts == SelectSeq(parts, LAMBDA p : p.kind = "data")
         IN  IF parts = <<>> \/ data_parts = <<>> THEN Nothing
             ELSE LET d == data_parts[Len(data_parts)].data
                  IN  IF d = Absent THEN Some(Dict(Absent, FALSE))
                      ELSE IF d = Null THEN Nothing
                      ELSE Some(d)

\* The data of the first data part of the last artifact.
ExtractResultFirst(body) ==
    IF body.artifacts = <<>> THEN Some(body)
    ELSE LET parts == body.artifacts[Len(body.artifacts)].parts
             data_parts == SelectSeq(parts, LAMBDA p : p.kind = "data")
         IN  IF parts = <<>> \/ data_parts = <<>> THEN Some(body)
             ELSE LET d == data_parts[1].data
                  IN  IF d = Absent THEN Some(Dict(Absent, FALSE))
                      ELSE IF d = Null THEN Nothing
                      ELSE Some(d)

\* _extract_result: the data of the last data part of the last artifact, the
\* whole reply when there is none.  None is Nothing.
ExtractResult(body) ==
    IF body.artifacts = <<>> THEN Some(body)
    ELSE LET parts == body.artifacts[Len(body.artifacts)].parts
             data_parts == SelectSeq(parts, LAMBDA p : p.kind = "data")
         IN  IF parts = <<>> \/ data_parts = <<>> THEN Some(body)
             ELSE LET d == data_parts[Len(data_parts)].data
                  IN  IF d = Absent THEN Some(Dict(Absent, FALSE))
                      ELSE IF d = Null THEN Nothing
                      ELSE Some(d)

\* _extract_text_part: the text of the first text part of the last artifact.
ExtractTextPart(body) ==
    IF body.artifacts = <<>> THEN Nothing
    ELSE LET parts == body.artifacts[Len(body.artifacts)].parts
             text_parts == SelectSeq(parts, LAMBDA p : p.kind = "text")
         IN  IF text_parts = <<>> THEN Nothing
             ELSE IF text_parts[1].text \in {Absent, Null} THEN Nothing
             ELSE Some(text_parts[1].text.v)

\* The payload is a dict with an errors key, whatever the array holds.
HasErrorsKey(data) ==
    \E d \in data : d.t = "dict" /\ d.errors # Absent

\* bool(result_data.get("errors", [])) for a dict, False for anything else.
HasErrors(data) ==
    \E d \in data : /\ d.t = "dict"
                    /\ d.errors # Absent
                    /\ d.errors.items # <<>>

\* data.get("taskId") and data.get("contextId") of a reply that has neither.
A2AMetadata == Some([task_id |-> Null, context_id |-> Null])

\* Every reply that is not 'working' gives SUBMITTED, a 'working' one WORKING.
A2AResultWorking(body) ==
    TaskResult(IF body.status = Str("working") THEN "working" ELSE "submitted",
               ExtractResult(body), Nothing, TRUE, A2AMetadata)

\* The result for a reply that is a JSON object.  TaskResult has no message
\* field: the message keyword is dropped by the model class.
A2AResult(body) ==
    IF body.status = Str("completed")
    THEN TaskResult("completed", ExtractResult(body), Nothing,
                    ~HasErrors(ExtractResult(body)), A2AMetadata)
    ELSE IF body.status = Str("failed")
    THEN TaskResult("failed", Nothing,
                    IF ExtractTextPart(body) \in {Nothing, Some("")}
                    THEN Some("Task failed") ELSE ExtractTextPart(body),
                    FALSE, Nothing)
    ELSE TaskResult("submitted", ExtractResult(body), Nothing, TRUE, A2AMetadata)

\* What _call_a2a_tool gives its caller: the except clause catches
\* httpx.HTTPError only; json() raising on a body that is not JSON and
\* data.get on a body that is no object reach the caller.
A2AOutcome(reply) ==
    IF reply.kind \in HTTPErrors
    THEN Returned(TaskResult("failed", Nothing, Some(reply.kind), FALSE, Nothing))
    ELSE IF reply.kind = "JSONDecodeError"
    THEN Raised("JSONDecodeError", <<"Expecting", "value">>)
    ELSE IF reply.body.t # "object"
    THEN Raised("AttributeError", <<"list", "attribute">>)
    ELSE Returned(A2AResult(reply.body))

\* The outcome held by one of raw_result, typed_result, unwrapped.
The(outcome) == CHOOSE o \in outcome : TRUE

(* request headers and debug record *)
\* headers[name] = value
SetHeader(headers, name, value) ==
    {h \in headers : h.name # name} \cup {[name |-> name, value |-> value]}

\* `if self.agent_config.auth_token:`
HasToken(cfg) == cfg.auth_token \notin {Nothing, Some("")}

\* The token is sent as it is, whatever the auth type.
AuthValueRaw(cfg) == The(cfg.auth_token)

\* The value of the auth header.
AuthValue(cfg) ==
    IF cfg.auth_type = "bearer" THEN "Bearer " \o The(cfg.auth_token)
    ELSE The(cfg.auth_token)

\* The headers with the auth header added, if a token is configured.
WithAuth(cfg, headers) ==
    IF HasToken(cfg) THEN SetHeader(headers, cfg.auth_header, AuthValue(cfg)) ELSE headers

\* The headers of MCPAdapter._get_session and of the A2A requests.
MCPHeaders(cfg) == WithAuth(cfg, {})
A2AHeaders(cfg) == WithAuth(cfg, {[name |-> "Content-Type", value |-> "application/json"]})

\* k.lower() of a header name.
HeaderLower(name) ==
    CASE name = "Authorization" -> "authorization"
      [] name = "Content-Type" -> "content-type"
      [] OTHER -> name

\* The headers are captured as they were sent.
Unredacted(cfg, headers) == headers

\* The headers as the debug record keeps them.
Redacted(cfg, headers) ==
    { [name |-> h.name,
       value |-> IF HeaderLower(h.name) \in {"authorization", HeaderLower(cfg.auth_header)}
                 THEN "***" ELSE h.value] : h \in headers }

\* url = f"{agent_uri}/message/send"
A2AUrl(cfg) == cfg.agent_uri \o <<"/message/send">>

\* debug_request
DebugRequest(cfg) ==
    [ url |-> A2AUrl(cfg), method |-> "POST",
      headers |-> Redacted(cfg, A2AHeaders(cfg)), body |-> "request_data" ]

\* DebugInfo
DebugInfo(request, response) ==
    [request |-> request, response |-> response, duration_ms |-> "elapsed"]

\* A debug record is built whatever the config says.
DebugAlways(cfg) == TRUE

\* `if self.agent_config.debug`
DebugEnabled(cfg) == cfg.debug

\* debug_info of _call_a2a_tool when client.post has given the reply.
A2ADebugInfo(cfg, reply) ==
    IF ~DebugEnabled(cfg) THEN Nothing
    ELSE IF reply.kind \in HTTPErrors
    THEN Some(DebugInfo(DebugRequest(cfg), [error |-> reply.kind]))
    ELSE IF reply.kind = "json"
    THEN Some(DebugInfo(DebugRequest(cfg), [status |-> "status_code", body |-> reply.body]))
    ELSE Nothing

\* The outcome with debug_info set on the result it returns.
WithDebug(outcome, debug_info) ==
    IF outcome.kind = "return"
    THEN Returned([outcome.value EXCEPT !.debug_info = debug_info])
    ELSE outcome

\* _call_a2a_tool for a config and a reply.
A2ACall(cfg, reply) == WithDebug(A2AOutcome(reply), A2ADebugInfo(cfg, reply))

\* _get_client keeps a client the adapter already has.
GetClient == IF client = None THEN NewClient ELSE client

\* An operation call begins: _get_client, then client.post is sent.
A2ABeginCall(t) ==
    /\ agent_config.protocol = "a2a"
    /\ Admit(t)
    /\ UNCHANGED <<agent_config, pipeVars, mcpVars, log>>
    /\ client' = GetClient
    /\ Suspend(t, "a2a_call", "posting",
               [InitLoc EXCEPT !.client = GetClient,
                               !.stale = (clientState[GetClient] \in {"closing", "closed"})])
    /\ SetClients([clientState EXCEPT ![GetClient] = IF @ = "none" THEN "open" ELSE @],
                  clientAclose)

\* client.post resumes.
A2APostDone(t) ==
    /\ pc[t] = "posting"
    /\ UNCHANGED <<agent_config, pipeVars, mcpVars, client, ops, overlaps_left>>
    /\ \E reply \in A2AReplies : Finish(t, "a2a_call", A2ACall(agent_config, reply))
    /\ SetClients(clientState, clientAclose)

\* close() begins: self._client.aclose() is awaited.
A2ABeginClose(t) ==
    /\ agent_config.protocol = "a2a"
    /\ Admit(t)
    /\ UNCHANGED <<agent_config, pipeVars, mcpVars, client>>
    /\ IF client # None
       THEN /\ Suspend(t, "close", "a2a_closing", [InitLoc EXCEPT !.client = client])
            /\ UNCHANGED log
            /\ SetClients([clientState EXCEPT ![client] = "closing"],
                          [clientAclose EXCEPT ![client] = @ + 1])
       ELSE /\ Finish(t, "close", Returned(NoneValue))
            /\ SetClients(clientState, clientAclose)

\* close() leaves the client it closed in self._client.
ClientKept(c) == c

\* self._client = None
ClientAfterClose(c) == None

\* aclose() resumes: self._client = None.
A2ACloseDone(t) ==
    /\ pc[t] = "a2a_closing"
    /\ UNCHANGED <<agent_config, pipeVars, mcpVars, ops, overlaps_left>>
    /\ client' = ClientAfterClose(loc[t].client)
    /\ Finish(t, "close", Returned(NoneValue))
    /\ SetClients([clientState EXCEPT ![loc[t].client] = "closed"], clientAclose)

(* ----------------------------- scheduling ----------------------------- *)
\* An operation begins, or a suspended one resumes at its await.
Next ==
    \E t \in Tasks :
        \/ BeginCall(t, "call_tool")
        \/ BeginCall(t, "list_tools")
        \/ BeginClose(t)
        \/ TransportDone(t)
        \/ SessionEnterDone(t)
        \/ InitializeDone(t)
        \/ CleanupDone(t)
        \/ CallDone(t)
        \/ CloseDone(t)
        \/ A2ABeginCall(t)
        \/ A2APostDone(t)
        \/ A2ABeginClose(t)
        \/ A2ACloseDone(t)

\* Operations that do not overlap: one starts only when none is in progress.
InitSeq ==
    /\ Constructed
    /\ overlaps_left = 0

\* Operations of up to NumTasks tasks, MaxOverlap of them overlapping.
Spec == Init /\ [][Next]_vars

\* Operations that never overlap.
SpecSeq == InitSeq /\ [][Next]_vars

(* --------------------- one call through the layers --------------------- *)
\* The sequences over S of length n at most.
SeqsUpTo(S, n) == UNION {[1 .. k -> S] : k \in 0 .. n}

\* The parts an artifact is made of, and the status values of a reply.
Parts ==
    { DataPart(Products), DataPart(BudgetErrors), DataPart(EmptyErrors),
      DataPart(MediaBuy), DataPart(Null), DataPart(Absent),
      TextPart(Str("done")), TextPart(Str("boom")) }
Statuses ==
    { Str("completed"), Str("failed"), Str("working"), Str("submitted"),
      Str("input-required"), Str("bogus"), Absent }

\* The artifacts that come before the last one of a reply.
EarlierArtifacts ==
    { Artifact(<<>>), Artifact(<<DataPart(MediaBuy)>>), Artifact(<<TextPart(Str("boom"))>>),
      Artifact(<<TextPart(Str("done")), DataPart(BudgetErrors)>>) }

\* The reply bodies that are JSON objects: no artifact, or up to
\* MaxArtifacts of them, the last one with any parts.
Bodies ==
    { Object(st, arts) :
        st \in Statuses,
        arts \in {<<>>} \cup
                 { earlier \o <<Artifact(ps)>> :
                     earlier \in SeqsUpTo(EarlierArtifacts, MaxArtifacts - 1),
                     ps \in SeqsUpTo(Parts, MaxParts) } }

\* TaskStatus
TaskStatus == {"completed", "submitted", "needs_input", "failed", "working"}

\* The values the TaskResult constructor accepts: the model class has no
\* validator that relates the fields to each other.
TaskResults ==
    [ status : TaskStatus,
      data : {Nothing, Some(Products), Some(BudgetErrors)},
      submitted : {Nothing, Some([webhook_url |-> "https://hook", operation_id |-> "op"])},
      needs_input : {Nothing, Some([message |-> "which budget?", field |-> NoneValue])},
      error : {Nothing, Some("boom")},
      success : BOOLEAN,
      metadata : {Nothing},
      debug_info : {Nothing} ]

\* The replies to the GET of the agent card: an error status, a timeout,
\* another transport failure, or the card with its skills' names.
CardReplies ==
    {[kind |-> "HTTPStatusError", status |-> code] : code \in {401, 403, 404, 500}} \cup
    {[kind |-> "TimeoutException"], [kind |-> "ConnectError"]} \cup
    {[kind |-> "card", skills |-> names] :
        names \in {<<>>, <<"get_products">>, <<"", "get_products">>}}

\* The two operations that fetch the agent card, with the reply they get.
CardInputs ==
    {[kind |-> "card", method |-> m, reply |-> r] :
        m \in {"list_tools", "get_agent_info"}, r \in CardReplies}

\* What one call is given: the reply to an A2A request, the reply to an MCP
\* tool call, or a TaskResult that the wrapped client hands over as it is
\* (a mocked or third-party adapter).
Inputs ==
    {[kind |-> "a2a", reply |-> r] : r \in A2AReplies} \cup
    {[kind |-> "a2a", reply |-> [kind |-> "json", body |-> b]] : b \in Bodies} \cup
    {[kind |-> "mcp", reply |-> [kind |-> "content", content |-> c]] : c \in McpContents} \cup
    {[kind |-> "mcp", reply |-> [kind |-> "McpError", msg |-> m]] : m \in ErrMsgs} \cup
    {[kind |-> "result", result |-> r] : r \in TaskResults} \cup
    CardInputs

\* The inputs that every config is tried with.
ConfigInputs ==
    {[kind |-> "a2a", reply |-> r] : r \in A2AReplies} \cup
    {[kind |-> "mcp", reply |-> [kind |-> "content", content |-> c]] : c \in McpContents} \cup
    {[kind |-> "mcp", reply |-> [kind |-> "McpError", msg |-> m]] : m \in ErrMsgs} \cup
    CardInputs

\* The response types the client's methods pass to _parse_response.
ResponseTypes == {"GetProductsResponse", "CreateMediaBuyResponse"}

\* A value of a response type.  CreateMediaBuyResponse is a union of a
\* success variant and an error variant.
Typed(type, variant, payload) ==
    [t |-> "typed", type |-> type, variant |-> variant, payload |-> payload]

Parsed(value) == [ok |-> TRUE, value |-> value]
ValueError(msg) == [ok |-> FALSE, msg |-> msg]

\* parse_json_or_text: the payload validated as the response type.
ParseJsonOrText(data, type) ==
    IF data.t # "dict" THEN {ValueError("validation error")}
    ELSE IF type = "GetProductsResponse"
    THEN IF data.products
         THEN {Parsed(Typed(type, "GetProductsResponse", data))}
         ELSE {ValueError("validation error")}
    ELSE IF data.media_buy_id /\ data.errors = Absent
    THEN {Parsed(Typed(type, "CreateMediaBuySuccessResponse", data))}
    ELSE IF ~data.media_buy_id /\ data.errors # Absent
    THEN {Parsed(Typed(type, "CreateMediaBuyErrorResponse", data))}
    ELSE {ValueError("validation error")}

\* parse_mcp_content: the text of the content items parsed and validated as
\* the response type; the text of an item is not modelled, so a list with
\* an item parses or fails.
ParseMcpContent(data, type) ==
    IF data.items = <<>> THEN {ValueError("no content")}
    ELSE {Parsed(Typed(type, "from text", data)), ValueError("validation error")}

\* A ValueError escapes _parse_response.
ParsePropagates(msg) == Raised("ValueError", msg)

\* _parse_response's except clause: a ValueError becomes a FAILED result.
ParseExcept(msg) ==
    Returned(TaskResult("failed", Nothing, Some("Failed to parse response: " \o msg),
                        FALSE, Nothing))

\* The raw results _parse_response returns as they are.
PassedThrough(raw) == ~raw.success \/ raw.data = Nothing

\* _parse_response: its outcomes for a raw result and a response type.
ParseResponse(raw, type) ==
    IF PassedThrough(raw) THEN {Returned(raw)}
    ELSE LET data == CHOOSE d \in raw.data : TRUE
         IN  { WithDebug(IF p.ok
                         THEN Returned(TaskResult(raw.status, Some(p.value), raw.error,
                                                  raw.success, raw.metadata))
                         ELSE ParseExcept(p.msg),
                         raw.debug_info) :
               p \in IF data.t = "list" THEN ParseMcpContent(data, type)
                     ELSE ParseJsonOrText(data, type) }

\* _unwrap falls off its end: the caller gets None.
UnwrapFallsThrough(status) == Returned(NoneValue)

\* _unwrap's last statement.
UnwrapUnexpected(status) ==
    Raised("ADCPSimpleError", "Unexpected task status: " \o status)

\* The clarification is left out of the message.
NeedsInputUnknown(r) == "unknown"

\* result.needs_input.message if result.needs_input else 'unknown'
NeedsInputMessage(r) ==
    IF r.needs_input # Nothing
    THEN (CHOOSE i \in r.needs_input : TRUE).message ELSE "unknown"

\* SimpleAPI._unwrap
Unwrap(r) ==
    IF r.status = "completed" /\ r.data # Nothing
    THEN Returned(CHOOSE d \in r.data : TRUE)
    ELSE IF r.status = "submitted"
    THEN Raised("ADCPSimpleError",
                "Task submitted for async processing. Webhook: " \o
                (IF r.submitted # Nothing
                 THEN (CHOOSE i \in r.submitted : TRUE).webhook_url ELSE "unknown"))
    ELSE IF r.status = "needs_input"
    THEN Raised("ADCPSimpleError",
                "Agent needs input: " \o NeedsInputMessage(r))
    ELSE IF r.status = "failed"
    THEN Raised("ADCPSimpleError",
                <<"Task failed", IF r.error = Nothing THEN Some("unknown error") ELSE r.error>>)
    ELSE UnwrapUnexpected(r.status)

\* The adapter state of a call through the layers: an adapter that has
\* made no call yet.
AdapterIdle ==
    /\ session = None
    /\ exitStack = None
    /\ heap = InitHeap
    /\ client = None
    /\ clientState = [c \in ClientIds |-> "none"]
    /\ clientAclose = [c \in ClientIds |-> 0]
    /\ pc = [t \in Tasks |-> "idle"]
    /\ op = [t \in Tasks |-> "none"]
    /\ loc = [t \in Tasks |-> InitLoc]
    /\ log = [t \in Tasks |-> <<>>]
    /\ result = NoResult
    /\ ops = 0
    /\ overlaps_left = 0

InitLayers ==
    /\ AdapterIdle
    /\ input \in Inputs
    /\ agent_config \in AuthConfigs("mcp", <<"https", "h", "/">>) \cup
                         AuthConfigs("a2a", <<"https", "h", "/">>)
    /\ (input.kind \in {"a2a", "mcp"} => agent_config.protocol = input.kind)
    /\ (input.kind \in {"result", "card"} => agent_config.protocol = "a2a")
    /\ (input \notin ConfigInputs =>
            agent_config = DefaultConfig(agent_config.protocol, agent_config.agent_uri))
    /\ response_type = "Any"
    /\ raw_result = Nothing
    /\ typed_result = Nothing
    /\ unwrapped = Nothing
    /\ sent = Nothing
    /\ fetched = Nothing
    /\ AuxIdle

adapterVars == <<agent_config, mcpVars, a2aVars, taskVars, overlaps_left>>

\* A2AAdapter._call_a2a_tool, from the reply to its result.
CallA2ATool ==
    /\ input.kind = "a2a"
    /\ raw_result = Nothing
    /\ sent' = Some([url |-> A2AUrl(agent_config), headers |-> A2AHeaders(agent_config)])
    /\ raw_result' = Some(A2ACall(agent_config, input.reply))
    /\ UNCHANGED <<adapterVars, input, response_type, typed_result, unwrapped, fetched, auxVars>>

\* MCPAdapter.call_tool, from the reply of session.call_tool to its result;
\* the session was opened with the headers of _get_session.
CallTool ==
    /\ input.kind = "mcp"
    /\ raw_result = Nothing
    /\ sent' = Some([url |-> agent_config.agent_uri, headers |-> MCPHeaders(agent_config)])
    /\ raw_result' = Some(IF input.reply.kind = "content"
                          THEN CallToolReturn(input.reply.content)
                          ELSE CallToolExcept(input.reply.kind, input.reply.msg))
    /\ UNCHANGED <<adapterVars, input, response_type, typed_result, unwrapped, fetched, auxVars>>

\* The keyword arguments of an exception constructor call.
Kwargs(agent_id, agent_uri, timeout) ==
    [agent_id |-> agent_id, agent_uri |-> agent_uri, timeout |-> timeout]
NoKwargs == Kwargs(Nothing, Nothing, Nothing)

\* An exception raised with its class, message and the context it carries.
RaisedWith(exc, msg, context) ==
    [kind |-> "raise", exc |-> exc, msg |-> msg, context |-> context]

\* `raise cls(msg, **kwargs)` for a class of adcp.exceptions: the classes
\* define no __init__, so BaseException's refuses keyword arguments and the
\* statement raises the TypeError of the constructor call.
RaiseNew(cls, msg, kwargs) ==
    IF kwargs = NoKwargs
    THEN RaisedWith(cls, msg, NoKwargs)
    ELSE RaisedWith("TypeError", <<cls, "takes no keyword arguments">>, NoKwargs)

\* The except clauses of list_tools and get_agent_info.
CardExcept(cfg, reply) ==
    IF reply.kind = "HTTPStatusError"
    THEN IF reply.status \in {401, 403}
         THEN RaiseNew("ADCPAuthenticationError", <<"Authentication failed: HTTP", reply.status>>,
                       Kwargs(Some(cfg.id), Some(cfg.agent_uri), Nothing))
         ELSE RaiseNew("ADCPConnectionError", <<"Failed to fetch agent card: HTTP", reply.status>>,
                       Kwargs(Some(cfg.id), Some(cfg.agent_uri), Nothing))
    ELSE IF reply.kind = "TimeoutException"
    THEN RaiseNew("ADCPTimeoutError", <<"Timeout fetching agent card:", reply.kind>>,
                  Kwargs(Some(cfg.id), Some(cfg.agent_uri), Some(cfg.timeout)))
    ELSE RaiseNew("ADCPConnectionError", <<"Failed to fetch agent card:", reply.kind>>,
                  Kwargs(Some(cfg.id), Some(cfg.agent_uri), Nothing))

\* [skill.get("name") for skill in skills if skill.get("name")]
ToolNames(skills) == SelectSeq(skills, LAMBDA name : name # "")

\* What list_tools and get_agent_info return for the card.
CardReturn(method, card) ==
    IF method = "list_tools"
    THEN Returned(ToolNames(card.skills))
    ELSE Returned([protocol |-> "a2a",
                   tools |-> IF ToolNames(card.skills) # <<>>
                             THEN Some(ToolNames(card.skills)) ELSE Nothing])

\* url = f"{agent_uri}/.well-known/agent.json"
CardUrl(cfg) == cfg.agent_uri \o <<"/.well-known/agent.json">>

\* A2AAdapter.list_tools or get_agent_info, from the reply of client.get to
\* what the method returns or raises.
FetchAgentCard ==
    /\ input.kind = "card"
    /\ fetched = Nothing
    /\ sent' = Some([url |-> CardUrl(agent_config), headers |-> A2AHeaders(agent_config)])
    /\ fetched' = Some(IF input.reply.kind = "card"
                       THEN CardReturn(input.method, input.reply)
                       ELSE CardExcept(agent_config, input.reply))
    /\ UNCHANGED <<adapterVars, input, response_type, raw_result, typed_result, unwrapped, auxVars>>

\* The wrapped client's adapter returns a TaskResult it constructed.
Construct ==
    /\ input.kind = "result"
    /\ raw_result = Nothing
    /\ raw_result' = Some(Returned(input.result))
    /\ UNCHANGED <<adapterVars, input, response_type, typed_result, unwrapped, sent, fetched, auxVars>>

\* The client method passes the adapter's result and its response type to
\* _parse_response; an exception of the adapter skips it.
NormalizeDone ==
    /\ raw_result # Nothing
    /\ The(raw_result).kind = "return"
    /\ typed_result = Nothing
    /\ \E type \in ResponseTypes :
         /\ response_type' = type
         /\ \E out \in ParseResponse(The(raw_result).value, type) :
              typed_result' = Some(out)
    /\ UNCHANGED <<adapterVars, input, raw_result, unwrapped, sent, fetched, auxVars>>

\* SimpleAPI passes the client's result to _unwrap.
UnwrapDone ==
    /\ typed_result # Nothing
    /\ The(typed_result).kind = "return"
    /\ unwrapped = Nothing
    /\ unwrapped' = Some(Unwrap(The(typed_result).value))
    /\ UNCHANGED <<adapterVars, input, response_type, raw_result, typed_result, sent, fetched, auxVars>>

NextLayers ==
    \/ CallA2ATool
    \/ CallTool
    \/ Construct
    \/ FetchAgentCard
    \/ NormalizeDone
    \/ UnwrapDone

\* One reply (or one constructed result) taken through the adapter, the
\* normalizer and the ergonomic accessor.
SpecLayers == InitLayers /\ [][NextLayers]_vars

(* ------------------------- awaits and timeouts ------------------------- *)
\* The adapter of either protocol with either MCP transport, its operations
\* not overlapping.
InitTimed ==
    /\ AdapterIdle
    /\ agent_config \in
           { [DefaultConfig(p, u) EXCEPT !.mcp_transport = tr] :
               p \in {"mcp", "a2a"}, u \in ConfigURIs, tr \in {"streamable_http", "sse"} }
    /\ (agent_config.protocol = "a2a" =>
           /\ agent_config.agent_uri = <<"https", "h", "/">>
           /\ agent_config.mcp_transport = "streamable_http")
    /\ input = NoInput
    /\ response_type = "Any"
    /\ raw_result = Nothing
    /\ typed_result = Nothing
    /\ unwrapped = Nothing
    /\ sent = Nothing
    /\ fetched = Nothing
    /\ AuxIdle

\* The await task t is suspended at is one that resumes whatever the agent
\* does: the code passes agent_config.timeout to it (streamablehttp_client,
\* client.post), or it enters or exits a context without waiting for a
\* reply.  sse_client, ClientSession, initialize(), call_tool() and
\* list_tools() are given no timeout.
TimeoutPassed(t) ==
    \/ pc[t] = "transport" /\ agent_config.mcp_transport = "streamable_http"
    \/ pc[t] = "posting"
    \/ pc[t] \in {"session_enter", "cleanup", "closing", "a2a_closing"}

\* Task t resumes at its await.
Resume(t) ==
    \/ TransportDone(t)
    \/ SessionEnterDone(t)
    \/ InitializeDone(t)
    \/ CleanupDone(t)
    \/ CallDone(t)
    \/ CloseDone(t)
    \/ A2APostDone(t)
    \/ A2ACloseDone(t)

\* Operations that never overlap, where every await that is given the
\* configured timeout, or waits for no reply, resumes.
SpecTimed ==
    /\ InitTimed
    /\ [][Next]_vars
    /\ \A t \in Tasks : WF_vars(TimeoutPassed(t) /\ Resume(t))

(* --------------------- the A2A adapter's HTTP client -------------------- *)
\* An A2A adapter that has no client yet, or that holds the client its
\* first call created and returned from; up to PoolOverlap of the operations
\* that follow start while another one is in progress.
InitPool ==
    /\ agent_config = DefaultConfig("a2a", <<"https", "h", "/">>)
    /\ session = None
    /\ exitStack = None
    /\ heap = InitHeap
    /\ \E first \in {None, 1} :
         /\ client = first
         /\ clientState = [c \in ClientIds |-> IF c = first THEN "open" ELSE "none"]
    /\ clientAclose = [c \in ClientIds |-> 0]
    /\ pc = [t \in Tasks |-> "idle"]
    /\ op = [t \in Tasks |-> "none"]
    /\ loc = [t \in Tasks |-> InitLoc]
    /\ log = [t \in Tasks |-> <<>>]
    /\ result = NoResult
    /\ ops = 0
    /\ overlaps_left = PoolOverlap
    /\ input = NoInput
    /\ response_type = "Any"
    /\ raw_result = Nothing
    /\ typed_result = Nothing
    /\ unwrapped = Nothing
    /\ sent = Nothing
    /\ fetched = Nothing
    /\ AuxIdle

\* The operations of the A2A adapter.
NextPool ==
    \E t \in Tasks :
        \/ A2ABeginCall(t)
        \/ A2APostDone(t)
        \/ A2ABeginClose(t)
        \/ A2ACloseDone(t)

SpecPool == InitPool /\ [][NextPool]_vars

(* ------------------------ multi-agent fan-out -------------------------- *)
\* What a configured agent is and how it answers get_products: an A2A agent
\* that cannot be connected to, that answers with products, or that is still
\* working; an MCP agent that answers with content, or whose session
\* acquisition raised the connection error.
AgentInputs ==
    { [protocol |-> "a2a", reply |-> [kind |-> "ConnectError"]],
      [protocol |-> "a2a",
       reply |-> [kind |-> "json",
                  body |-> Object(Str("completed"), <<Artifact(<<DataPart(Products)>>)>>)]],
      [protocol |-> "a2a", reply |-> [kind |-> "json", body |-> Object(Str("working"), <<>>)]],
      [protocol |-> "mcp", reply |-> [kind |-> "content", content |-> <<"text">>]],
      [protocol |-> "mcp",
       reply |-> [kind |-> "ADCPConnectionError", msg |-> ClassifiedMsg(<<"refused">>)]] }

\* The agent's adapter cannot connect.
ConnectionFails(a) == a.reply.kind \in {"ConnectError", "ADCPConnectionError"}

\* What the agent's adapter gives for the call.
AdapterOutcome(a) ==
    IF a.protocol = "a2a"
    THEN A2ACall(DefaultConfig("a2a", <<"https", "h", "/">>), a.reply)
    ELSE IF a.reply.kind = "content"
    THEN CallToolReturn(a.reply.content)
    ELSE CallToolExcept(a.reply.kind, a.reply.msg)

\* What the agent's client gives for get_products: the adapter's result
\* taken through _parse_response.
ClientOutcomes(a) == ParseResponse(AdapterOutcome(a).value, "GetProductsResponse")

\* The results are kept in the order the calls completed.
SlotByCompletion(i, completed) == completed + 1

\* The result of agent i is kept at position i.
SlotByPosition(i, completed) == i

\* The per-agent calls that completed.
Completed == {i \in 1 .. NumAgents : fan.slots[i] # Nothing}

\* A multi-agent client over NumAgents agents, its get_products just called.
InitFanOut ==
    /\ AdapterIdle
    /\ agent_config = DefaultConfig("a2a", <<"https", "h", "/">>)
    /\ input = NoInput
    /\ response_type = "Any"
    /\ raw_result = Nothing
    /\ typed_result = Nothing
    /\ unwrapped = Nothing
    /\ sent = Nothing
    /\ fetched = Nothing
    /\ \E agents \in [1 .. NumAgents -> AgentInputs] :
         fan = [agents |-> agents, slots |-> [i \in 1 .. NumAgents |-> Nothing],
                order |-> <<>>, out |-> Nothing]
    /\ scope = NoScope
    /\ preview = NoPreview

\* The call to agent i completes, whichever calls completed before it.
AgentDone(i) ==
    /\ fan.out = Nothing
    /\ i \notin {fan.order[k] : k \in 1 .. Len(fan.order)}
    /\ \E o \in ClientOutcomes(fan.agents[i]) :
         fan' = [fan EXCEPT !.slots[SlotByPosition(i, Len(fan.order))] = Some(o),
                            !.order = Append(@, i)]
    /\ UNCHANGED <<adapterVars, input, response_type, raw_result, typed_result, unwrapped,
                   sent, fetched, scope, preview>>

\* The join: every call has completed and the list of their results, one
\* per agent, is returned.
FanOutJoin ==
    /\ fan.out = Nothing
    /\ Len(fan.order) = NumAgents
    /\ fan' = [fan EXCEPT !.out =
                   Some(Returned([i \in 1 .. NumAgents |-> The(fan.slots[i]).value]))]
    /\ UNCHANGED <<adapterVars, input, response_type, raw_result, typed_result, unwrapped,
                   sent, fetched, scope, preview>>

NextFanOut ==
    \/ \E i \in 1 .. NumAgents : AgentDone(i)
    \/ FanOutJoin

SpecFanOut == InitFanOut /\ [][NextFanOut]_vars

(* ------------------------- the client as a scope ----------------------- *)
\* The client of either protocol, constructed and about to be used as
\* `async with ADCPClient(config) as client:` around one operation.
InitScope ==
    /\ AdapterIdle
    /\ agent_config \in {DefaultConfig(p, u) : p \in {"mcp", "a2a"}, u \in ConfigURIs}
    /\ (agent_config.protocol = "a2a" => agent_config.agent_uri = <<"https", "h", "/">>)
    /\ input = NoInput
    /\ response_type = "Any"
    /\ raw_result = Nothing
    /\ typed_result = Nothing
    /\ unwrapped = Nothing
    /\ sent = Nothing
    /\ fetched = Nothing
    /\ fan = NoFan
    /\ scope = [phase |-> "outside", body |-> "none", closes |-> 0]
    /\ preview = NoPreview

scopeRest ==
    <<adapterVars, input, response_type, raw_result, typed_result, unwrapped, sent, fetched, fan,
      preview>>

\* __aenter__ returns the client.
ScopeEnter ==
    /\ scope.phase = "outside"
    /\ scope' = [scope EXCEPT !.phase = "inside"]
    /\ UNCHANGED scopeRest

\* The operation of the body begins.
BodyBegins == scope.phase = "inside" /\ ops = 0
ScopeCallTool(t) == BodyBegins /\ BeginCall(t, "call_tool")
ScopeListTools(t) == BodyBegins /\ BeginCall(t, "list_tools")
ScopeA2ACall(t) == BodyBegins /\ A2ABeginCall(t)

\* __aexit__ closes the client only when the body returned.
ExitClosesOnReturn(body) == body = "returned"

\* __aexit__ closes the client however the body ended.
ExitCloses(body) == TRUE

\* How the body ended: an exception of its operation leaves the block.
BodyEnd == IF result.out.kind = "raise" THEN "raised" ELSE "returned"

\* The body has ended and __aexit__ is called: it calls close().
ScopeExit ==
    /\ scope.phase = "inside"
    /\ ops = 1
    /\ Idle
    /\ scope' = [scope EXCEPT !.phase = IF ExitCloses(BodyEnd) THEN "exiting" ELSE "left",
                              !.body = BodyEnd,
                              !.closes = IF ExitCloses(BodyEnd) THEN @ + 1 ELSE @]
    /\ UNCHANGED scopeRest

\* close() of the client: the adapter's close().
Closing == scope.phase = "exiting" /\ Idle /\ result.op # "close"
ScopeClose(t) == Closing /\ BeginClose(t)
ScopeA2AClose(t) == Closing /\ A2ABeginClose(t)

\* close() has returned and __aexit__ with it: the block is left, with the
\* body's exception if it raised.
ScopeLeave ==
    /\ scope.phase = "exiting"
    /\ Idle
    /\ result.op = "close"
    /\ scope' = [scope EXCEPT !.phase = "left"]
    /\ UNCHANGED scopeRest

NextScope ==
    \/ ScopeEnter
    \/ ScopeExit
    \/ ScopeLeave
    \/ \E t \in Tasks :
        \/ ScopeCallTool(t)
        \/ ScopeListTools(t)
        \/ ScopeA2ACall(t)
        \/ ScopeClose(t)
        \/ ScopeA2AClose(t)
        \/ TransportDone(t)
        \/ SessionEnterDone(t)
        \/ InitializeDone(t)
        \/ CleanupDone(t)
        \/ CallDone(t)
        \/ CloseDone(t)
        \/ A2APostDone(t)
        \/ A2ACloseDone(t)

SpecScope == InitScope /\ [][NextScope]_vars

(* ----------------------------- preview cache --------------------------- *)
NumFormats == 3

FormatIdOf(agent_url, id) == [kind |-> "FormatId", agent_url |-> agent_url, id |-> id, s |-> ""]

\* One entry of Format.assets_required.
AssetOf(is_dict, asset_id, type) == [is_dict |-> is_dict, asset_id |-> asset_id, type |-> type]

\* The formats a caller passes: two that get a sample manifest, one without
\* assets_required, one whose only asset has no asset_id.
FormatInputs ==
    { [format_id |-> FormatIdOf("u", "a"),
       assets_required |-> Some(<<AssetOf(TRUE, Some("img"), "image")>>)],
      [format_id |-> FormatIdOf("u", "b"),
       assets_required |-> Some(<<AssetOf(TRUE, Some("img"), "image"),
                                  AssetOf(FALSE, Some("vid"), "video")>>)],
      [format_id |-> FormatIdOf("u", "a"), assets_required |-> Nothing],
      [format_id |-> FormatIdOf("u", "b"),
       assets_required |-> Some(<<AssetOf(TRUE, Nothing, "text")>>)] }

CreateSampleAsset(asset_type) ==
    CASE asset_type = "image" -> "https://via.placeholder.com/300x250.png"
      [] asset_type = "video" -> "https://example.com/sample-video.mp4"
      [] asset_type = "text" -> "Sample advertising text"
      [] asset_type = "url" -> "https://example.com"
      [] asset_type = "html" -> "<div>Sample HTML</div>"
      [] OTHER -> "https://example.com/sample-asset"

\* A dict as the sequence of its items: d[key] = value.
DictSet(d, key, value) ==
    IF \E n \in 1 .. Len(d) : d[n][1] = key
    THEN [n \in 1 .. Len(d) |-> IF d[n][1] = key THEN <<key, value>> ELSE d[n]]
    ELSE Append(d, <<key, value>>)

RECURSIVE SampleAssets(_, _)
SampleAssets(required, assets) ==
    IF required = <<>> THEN assets
    ELSE LET asset == Head(required)
         IN  SampleAssets(Tail(required),
                          IF asset.is_dict /\ asset.asset_id # Nothing
                          THEN DictSet(assets, The(asset.asset_id), CreateSampleAsset(asset.type))
                          ELSE assets)

\* _create_sample_manifest_for_format: Nothing for None.
CreateSampleManifestForFormat(fmt) ==
    IF fmt.assets_required = Nothing \/ The(fmt.assets_required) = <<>> THEN Nothing
    ELSE LET assets == SampleAssets(The(fmt.assets_required), <<>>)
         IN  IF assets = <<>> THEN Nothing
             ELSE Some([format_id |-> fmt.format_id, assets |-> assets])

\* _make_manifest_cache_key: the string that is hashed, as the pair of its two
\* parts; the 16 hex digits of its SHA-256 are taken to be distinct for
\* distinct strings.
MakeManifestCacheKey(format_id, manifest_dict) ==
    LET format_id_str == IF format_id.kind = "str" THEN format_id.s
                         ELSE format_id.agent_url \o ":" \o format_id.id
    IN  <<format_id_str, manifest_dict>>

\* manifest.model_dump(exclude_none=True), then sorted(items()): the
\* promoted_offering of a sample manifest is None and dropped.
ManifestItems(manifest) ==
    <<<<"assets", manifest.assets>>, <<"format_id", manifest.format_id>>>>

\* One element of PreviewCreativeResponse.previews.
PreviewOf(url, renders) == [preview_url |-> url, renders |-> renders]

\* What `await creative_agent_client.preview_creative(request)` gives: an
\* exception, or a TaskResult.
PreviewReplies ==
    { [kind |-> "raise", success |-> FALSE, data |-> Nothing],
      [kind |-> "result", success |-> FALSE, data |-> Nothing],
      [kind |-> "result", success |-> TRUE, data |-> Nothing],
      [kind |-> "result", success |-> TRUE,
       data |-> Some([previews |-> <<>>, expires_at |-> "t1"])],
      [kind |-> "result", success |-> TRUE,
       data |-> Some([previews |-> <<PreviewOf("p1", Nothing)>>, expires_at |-> "t1"])],
      [kind |-> "result", success |-> TRUE,
       data |-> Some([previews |-> <<PreviewOf("p2", Some("r")), PreviewOf("p1", Nothing)>>,
                      expires_at |-> "t2"])] }

\* `result.success and result.data and result.data.previews`
HasPreview(reply) ==
    /\ reply.kind = "result"
    /\ reply.success
    /\ reply.data # Nothing
    /\ The(reply.data).previews # <<>>

\* The preview_data dict built from the first preview.
PreviewData(reply) ==
    LET first == The(reply.data).previews[1]
    IN  [preview_url |-> first.preview_url, input |-> <<>>,
         expires_at |-> The(reply.data).expires_at, renders |-> first.renders]

\* `cache_key in self._preview_cache` and `self._preview_cache[cache_key]`
CacheHas(cache, key) == \E e \in cache : e[1] = key
CacheGet(cache, key) == (CHOOSE e \in cache : e[1] = key)[2]
\* `self._preview_cache[cache_key] = preview_data`
CacheStore(cache, key, data) == {e \in cache : e[1] # key} \cup {<<key, data>>}

\* The lookup at the head of get_preview_data_for_manifest.
Cached(cache, key) == CacheHas(cache, key)

FormatKey(fmt) ==
    MakeManifestCacheKey(fmt.format_id, ManifestItems(The(CreateSampleManifestForFormat(fmt))))

\* The rest of get_preview_data_for_manifest once the request has answered:
\* what it returns and the cache it leaves.
AfterRequest(cache, key, reply) ==
    IF HasPreview(reply)
    THEN [ret |-> Some(PreviewData(reply)), cache |-> CacheStore(cache, key, PreviewData(reply))]
    ELSE [ret |-> Nothing, cache |-> cache]

\* process_format's dict: the format and, if there is one, its preview_data.
FormatDict(fmt, preview_data) == [format |-> fmt, preview_data |-> preview_data]

NewTask == [pc |-> "new", requested |-> FALSE, reply |-> Nothing, out |-> Nothing]

InitPreview ==
    /\ AdapterIdle
    /\ agent_config = DefaultConfig("a2a", <<"https", "h", "/">>)
    /\ input = NoInput
    /\ response_type = "Any"
    /\ raw_result = Nothing
    /\ typed_result = Nothing
    /\ unwrapped = Nothing
    /\ sent = Nothing
    /\ fetched = Nothing
    /\ fan = NoFan
    /\ scope = NoScope
    /\ \E formats \in [1 .. NumFormats -> FormatInputs] :
         preview = [formats |-> formats, tasks |-> [i \in 1 .. NumFormats |-> NewTask],
                    cache |-> {}, order |-> <<>>, out |-> Nothing]

previewRest ==
    <<adapterVars, input, response_type, raw_result, typed_result, unwrapped, sent, fetched, fan,
      scope>>

\* asyncio.gather starts the coroutines in the order of its arguments.
Starts(i) ==
    /\ i \in 1 .. NumFormats
    /\ preview.tasks[i].pc = "new"
    /\ \A j \in 1 .. i - 1 : preview.tasks[j].pc # "new"

\* Coroutine i returns its dict.
Finished(i, requested, reply, preview_data, cache) ==
    /\ preview' = [preview EXCEPT
                       !.tasks[i] = [pc |-> "done", requested |-> requested, reply |-> reply,
                                     out |-> Some(FormatDict(preview.formats[i], preview_data))],
                       !.cache = cache,
                       !.order = Append(@, i)]
    /\ UNCHANGED previewRest

\* process_format of a format that gets no sample manifest.
ProcessNoManifest(i) ==
    /\ Starts(i)
    /\ CreateSampleManifestForFormat(preview.formats[i]) = Nothing
    /\ Finished(i, FALSE, Nothing, Nothing, preview.cache)

\* process_format whose key is cached: no request.
ProcessCached(i) ==
    /\ Starts(i)
    /\ CreateSampleManifestForFormat(preview.formats[i]) # Nothing
    /\ Cached(preview.cache, FormatKey(preview.formats[i]))
    /\ Finished(i, FALSE, Nothing, Some(CacheGet(preview.cache, FormatKey(preview.formats[i]))),
                preview.cache)

\* process_format whose key is not cached, up to the await of the request.
ProcessRequest(i) ==
    /\ Starts(i)
    /\ CreateSampleManifestForFormat(preview.formats[i]) # Nothing
    /\ ~Cached(preview.cache, FormatKey(preview.formats[i]))
    /\ preview' = [preview EXCEPT !.tasks[i].pc = "awaiting", !.tasks[i].requested = TRUE]
    /\ UNCHANGED previewRest

\* The same when the client answers without suspending the coroutine.
ProcessRequestNow(i) ==
    /\ Starts(i)
    /\ CreateSampleManifestForFormat(preview.formats[i]) # Nothing
    /\ ~Cached(preview.cache, FormatKey(preview.formats[i]))
    /\ \E reply \in PreviewReplies :
         LET after == AfterRequest(preview.cache, FormatKey(preview.formats[i]), reply)
         IN  Finished(i, TRUE, Some(reply), after.ret, after.cache)

\* The request of coroutine i answers; every coroutine has run to its await
\* or its end by then.
ProcessResume(i) ==
    /\ i \in 1 .. NumFormats
    /\ preview.tasks[i].pc = "awaiting"
    /\ \A j \in 1 .. NumFormats : preview.tasks[j].pc # "new"
    /\ \E reply \in PreviewReplies :
         LET after == AfterRequest(preview.cache, FormatKey(preview.formats[i]), reply)
         IN  Finished(i, TRUE, Some(reply), after.ret, after.cache)

\* The results in the order the coroutines completed.
GatherByCompletion(tasks, order) == [i \in 1 .. Len(order) |-> The(tasks[order[i]].out)]

\* asyncio.gather's list: the results in the order of its arguments.
GatherResults(tasks, order) == [i \in 1 .. Len(tasks) |-> The(tasks[i].out)]

GatherDone ==
    /\ preview.formats # <<>>
    /\ preview.out = Nothing
    /\ \A i \in 1 .. NumFormats : preview.tasks[i].pc = "done"
    /\ preview' = [preview EXCEPT !.out = Some(GatherResults(preview.tasks, preview.order))]
    /\ UNCHANGED previewRest

NextPreview ==
    \/ GatherDone
    \/ \E i \in 1 .. NumFormats :
        \/ ProcessNoManifest(i)
        \/ ProcessCached(i)
        \/ ProcessRequest(i)
        \/ ProcessRequestNow(i)
        \/ ProcessResume(i)

SpecPreview == InitPreview /\ [][NextPreview]_vars

(* ------------------------------- claims -------------------------------- *)
\* The tasks inside the connect section of _get_session.
Acquiring ==
    {t \in Tasks : pc[t] \in {"transport", "session_enter", "initialize", "cleanup"}}

\* The exit stacks that are open.
OpenStacks == {k \in StackIds : heap.state[k] = "open"}

\* The attempt logs in the state: of the acquisitions in progress and of the
\* operation that just ended.
AttemptLogs == {log[t] : t \in Tasks} \cup {result.attempts}

\* The configured URI does not end in /mcp.
HasFallback == ~EndsWith(RStrip(agent_config.agent_uri), McpSuffix)

\* C1: concurrent calls on an MCP adapter without a session are coalesced: at
\* any time at most one caller is in a connection attempt sequence and at
\* most one exit stack is open.
C1_Coalesced ==
    /\ Cardinality(Acquiring) <= 1
    /\ Cardinality(OpenStacks) <= 1

\* C2: no request is in flight over a session or an HTTP client whose
\* teardown had already begun when the request was sent.
C2_NoRequestOverTornDown ==
    \A t \in Tasks : pc[t] \in {"calling", "posting"} => ~loc[t].stale

\* C3: for a configured URI that does not end in /mcp, every acquisition
\* attempts the configured URI first and the URI with /mcp appended second,
\* the second only after the first attempt failed, and there is no third.
C3_ConfiguredFirst ==
    HasFallback =>
        \A l \in AttemptLogs :
            l # <<>> =>
                /\ l[1].url = agent_config.agent_uri
                /\ Len(l) <= 2
                /\ Len(l) = 2 =>
                       /\ l[2].url = RStrip(agent_config.agent_uri) \o McpSuffix
                       /\ l[1].outcome = Failed

\* C3 happens: the fallback URL is being attempted after the configured URI
\* failed.
C3_FallbackTried ==
    /\ HasFallback
    /\ \E t \in Tasks :
           /\ pc[t] = "transport"
           /\ Len(log[t]) = 2
           /\ log[t][1].outcome = Failed
           /\ log[t][2].url = RStrip(agent_config.agent_uri) \o McpSuffix

\* C4: once the attempt against the next candidate has begun, every context
\* opened for the failed attempt before it has been exited by an aclose()
\* that returned, and the adapter's session is not the failed attempt's.
C4_TornDownBeforeNext ==
    \A t \in Tasks :
        Len(log[t]) >= 2 =>
            LET a == log[t][Len(log[t]) - 1].att
            IN  /\ \A k \in StackIds : \A item \in heap.items[k] : item[2] # a
                /\ session # a

\* C5: when every candidate failed, what the operation raises (list_tools)
\* or reports (call_tool) is the class and message of the last attempt's
\* error: 401, 403 or unauthorized give the authentication error, otherwise
\* timeout gives the timeout error, otherwise the connection error.
C5_ClassFromLastError ==
    /\ (/\ result.attempts # <<>>
        /\ result.attempts[Len(result.attempts)].outcome # Ok)
       => LET e == result.attempts[Len(result.attempts)].outcome
          IN  /\ result.out = OnException(result.op, Classify(e), ClassifiedMsg(e))
              /\ Classify(e) =
                     IF \E w \in {"401", "403", "unauthorized"} : Contains(e, w)
                     THEN "ADCPAuthenticationError"
                     ELSE IF Contains(e, "timeout") THEN "ADCPTimeoutError"
                     ELSE "ADCPConnectionError"
    /\ Classify(<<"HTTP", "401">>) = "ADCPAuthenticationError"
    /\ Classify(<<"Unauthorized">>) = "ADCPAuthenticationError"
    /\ Classify(<<"403", "timeout">>) = "ADCPAuthenticationError"
    /\ Classify(<<"Timeout">>) = "ADCPTimeoutError"
    /\ Classify(<<"refused">>) = "ADCPConnectionError"

\* C5 happens: both candidates failed, the first with a timeout-looking
\* error, and the operation raised the class of the second error.
C5_SecondErrorRaised ==
    /\ Len(result.attempts) = 2
    /\ result.op = "list_tools"
    /\ result.attempts[2].outcome = <<"refused">>
    /\ result.out.kind = "raise"
    /\ result.out.exc = "ADCPConnectionError"

\* A close() that has something to tear down begins in this step.
CloseBegins == \E t \in Tasks : pc[t] = "idle" /\ pc'[t] = "closing"

\* C6: once a session is acquired (its initialize() returned), the adapter
\* keeps that session until close() is called, and no call that begins
\* makes a connection attempt.
C6_SessionKept ==
    [][ (session # None /\ session \in heap.init /\ ~CloseBegins) =>
            /\ session' = session
            /\ \A t \in Tasks : pc[t] = "idle" => pc'[t] # "transport" ]_vars

\* C7: in any sequence of close() calls and other operations, close() never
\* raises, aclose() is called at most once on each exit stack and on each
\* HTTP client, and a close() that finds nothing open tears nothing down.
C7_CloseIdempotent ==
    /\ result.op = "close" => result.out = Returned(NoneValue)
    /\ \A k \in StackIds : heap.aclose[k] <= 1
    /\ \A c \in ClientIds : clientAclose[c] <= 1

\* C7 happens: a close() returned without tearing anything down, after an
\* earlier close() closed the HTTP client.
C7_SecondClose ==
    /\ result.op = "close"
    /\ ~result.teardown
    /\ client = None
    /\ \E c \in ClientIds : clientState[c] = "closed" /\ clientAclose[c] = 1

\* C8: the call that begins right after a close() returned opens a fresh
\* exit stack (MCP, for an http(s) URI) or a fresh HTTP client (A2A) and
\* works over it.
C8_LazyReconnect ==
    [][ \A t \in Tasks :
            (result.op = "close" /\ pc[t] = "idle" /\ pc'[t] # "idle"
                 /\ op'[t] # "close") =>
                IF op'[t] = "a2a_call"
                THEN /\ clientState[client'] = "none"
                     /\ clientState'[client'] = "open"
                     /\ loc'[t].client = client'
                     /\ ~loc'[t].stale
                ELSE /\ pc'[t] = "transport"
                     /\ heap.state[exitStack'] = "none"
                     /\ heap'.state[exitStack'] = "open"
                     /\ loc'[t].stack = exitStack' ]_vars

\* C8 happens: a request is in flight over a second, open HTTP client while
\* the first one is closed.
C8_Reconnected ==
    \E t \in Tasks, c \in ClientIds :
        /\ pc[t] = "posting"
        /\ loc[t].client = client
        /\ clientState[client] = "open"
        /\ c # client
        /\ clientState[c] = "closed"

\* C9: call_tool never raises: it returns COMPLETED with success and the
\* reply's content list as data, or FAILED without success and with an error
\* string; never SUBMITTED or NEEDS_INPUT.
C9_CallToolNeverRaises ==
    result.op = "call_tool" =>
        /\ result.out.kind = "return"
        /\ \/ /\ result.out.value.status = "completed"
              /\ result.out.value.success
              /\ result.out.value.error = Nothing
              /\ \E c \in McpContents :
                     result.out.value.data = Some([t |-> "list", items |-> c])
           \/ /\ result.out.value.status = "failed"
              /\ ~result.out.value.success
              /\ result.out.value.error # Nothing
              /\ result.out.value.data = Nothing

\* C9 happens: call_tool returned FAILED because session acquisition failed
\* with an authentication error on the last candidate.
C9_AcquisitionFailed ==
    /\ result.op = "call_tool"
    /\ result.attempts # <<>>
    /\ result.attempts[Len(result.attempts)].outcome = <<"403", "timeout">>
    /\ result.out.kind = "return"
    /\ result.out.value.status = "failed"

\* C10: an A2A operation call never raises: whatever the exchange gave, the
\* caller gets a TaskResult.
C10_A2ANeverRaises ==
    result.op = "a2a_call" => result.out.kind = "return"

(* ---- claims about one call through the layers (SpecLayers) ---- *)
\* The adapter has answered an A2A reply that is a JSON object.
A2AAnswered ==
    /\ input.kind = "a2a"
    /\ raw_result # Nothing
    /\ input.reply.kind = "json"
    /\ input.reply.body.t = "object"

\* The reply body of the call, and the TaskResult the adapter returned.
Body == input.reply.body
Raw == The(raw_result).value

\* C11: the status of the A2A adapter's result is a total function of the
\* reply's status field: 'completed' gives COMPLETED, 'failed' gives FAILED,
\* every other value, and a missing one, gives SUBMITTED with the extracted
\* payload as data; NEEDS_INPUT and WORKING never come out.
C11_StatusTotal ==
    A2AAnswered =>
        /\ The(raw_result).kind = "return"
        /\ Raw.status = (IF Body.status = Str("completed") THEN "completed"
                         ELSE IF Body.status = Str("failed") THEN "failed"
                         ELSE "submitted")
        /\ Raw.status \notin {"needs_input", "working"}
        /\ (Raw.status = "submitted" => Raw.data = ExtractResult(Body))

\* C11 happens: a reply with status 'input-required' and a data part came
\* back as SUBMITTED with that part's payload.
C11_InputRequiredSubmitted ==
    /\ A2AAnswered
    /\ Body.status = Str("input-required")
    /\ Raw.status = "submitted"
    /\ Raw.data = Some(Products)

\* The data parts of the last artifact of the reply.
LastDataParts ==
    SelectSeq(Body.artifacts[Len(Body.artifacts)].parts, LAMBDA p : p.kind = "data")

\* C12: when the last artifact of a reply has data parts, the payload the
\* adapter extracts is the data field of the last of them (None for a JSON
\* null), whatever the earlier artifacts and the earlier parts hold.
C12_LastDataPart ==
    (/\ A2AAnswered
     /\ Body.status # Str("failed")
     /\ Body.artifacts # <<>>
     /\ LastDataParts # <<>>
     /\ LastDataParts[Len(LastDataParts)].data # Absent) =>
        Raw.data = (IF LastDataParts[Len(LastDataParts)].data = Null THEN Nothing
                    ELSE Some(LastDataParts[Len(LastDataParts)].data))

\* C12 happens: two artifacts, the last one with two data parts, all three
\* payloads different, and the result carries the last part's payload.
C12_LastOfThree ==
    /\ A2AAnswered
    /\ Body.status = Str("completed")
    /\ Body.artifacts = << Artifact(<<DataPart(MediaBuy)>>),
                           Artifact(<<DataPart(BudgetErrors), DataPart(Products)>>) >>
    /\ Raw.data = Some(Products)

\* The text parts of the last artifact of the reply.
LastTextParts ==
    SelectSeq(Body.artifacts[Len(Body.artifacts)].parts, LAMBDA p : p.kind = "text")

\* C13: when the last artifact of a reply has text parts, the returned
\* TaskResult carries a message, and it is the text of the last of them
\* (for a FAILED result the message is its error).
C13_MessageSurfaced ==
    (/\ A2AAnswered
     /\ Body.artifacts # <<>>
     /\ LastTextParts # <<>>) =>
        IF Raw.status = "failed"
        THEN Raw.error = Some(LastTextParts[Len(LastTextParts)].text.v)
        ELSE /\ "message" \in DOMAIN Raw
             /\ Raw.message = Some(LastTextParts[Len(LastTextParts)].text.v)

OneFieldForStatus(r) ==
    /\ Cardinality({f \in {"data", "submitted", "needs_input", "error"} : r[f] # Nothing}) = 1
    /\ (r.status = "completed" => r.data # Nothing)
    /\ (r.status = "submitted" => r.submitted # Nothing)
    /\ (r.status = "needs_input" => r.needs_input # Nothing)
    /\ (r.status = "failed" => r.error # Nothing)

\* C15: every TaskResult that an adapter call or the normalizer returns has
\* exactly one of data, submitted, needs_input and error set, the one that
\* goes with its status.
C15_ExactlyOneField ==
    input.kind \in {"a2a", "mcp"} =>
        /\ (raw_result # Nothing /\ The(raw_result).kind = "return") =>
               OneFieldForStatus(Raw)
        /\ (typed_result # Nothing /\ The(typed_result).kind = "return") =>
               OneFieldForStatus(The(typed_result).value)

\* C16: no result an adapter returns has status COMPLETED and data None,
\* whatever the reply: an A2A data part with a null or missing data field,
\* an MCP reply without content.
C16_CompletedHasData ==
    (/\ input.kind \in {"a2a", "mcp"}
     /\ raw_result # Nothing
     /\ The(raw_result).kind = "return"
     /\ Raw.status = "completed") =>
        Raw.data # Nothing

\* The adapter returned a result and _parse_response has been applied to it.
Normalized ==
    /\ raw_result # Nothing
    /\ The(raw_result).kind = "return"
    /\ typed_result # Nothing

\* C17: a raw result that is not COMPLETED, or has no data, leaves the
\* normalizer as it entered it: same status, data, error, success and
\* metadata; it is not parsed and its status is not changed.
C17_PassThrough ==
    (Normalized /\ (Raw.status # "completed" \/ Raw.data = Nothing)) =>
        The(typed_result) = Returned(Raw)

\* The TaskResult _parse_response returned.
TypedResult == The(typed_result).value

C19_TypedErrorVariant ==
    (/\ A2AAnswered
     /\ Body.status = Str("completed")
     /\ Body.artifacts # <<>>
     /\ LastDataParts # <<>>
     /\ LastDataParts[Len(LastDataParts)].data = BudgetErrors
     /\ typed_result # Nothing
     /\ response_type = "CreateMediaBuyResponse") =>
        /\ The(typed_result).kind = "return"
        /\ TypedResult.status = "completed"
        /\ ~TypedResult.success
        /\ \E d \in TypedResult.data :
               d.t = "typed" /\ d.variant = "CreateMediaBuyErrorResponse"

\* C20: _unwrap is total: for every TaskResult it returns the result's data,
\* which is not None and not the TaskResult, or raises ADCPSimpleError.
C20_UnwrapTotal ==
    unwrapped # Nothing =>
        \/ /\ The(unwrapped).kind = "return"
           /\ TypedResult.data = Some(The(unwrapped).value)
           /\ The(unwrapped).value # NoneValue
           /\ The(unwrapped).value # TypedResult
        \/ /\ The(unwrapped).kind = "raise"
           /\ The(unwrapped).exc = "ADCPSimpleError"

\* C20 happens: _unwrap was given a WORKING result, which no branch names,
\* and raised ADCPSimpleError.
C20_WorkingRaises ==
    /\ unwrapped # Nothing
    /\ TypedResult.status = "working"
    /\ The(unwrapped) = Raised("ADCPSimpleError", "Unexpected task status: working")

\* C21: when the client's call gives a SUBMITTED result, _unwrap raises
\* ADCPSimpleError with a message that names the webhook URL of the pending
\* task, for every SUBMITTED result an adapter produces.
C21_WebhookInMessage ==
    (/\ input.kind \in {"a2a", "mcp"}
     /\ unwrapped # Nothing
     /\ TypedResult.status = "submitted") =>
        /\ TypedResult.submitted # Nothing
        /\ \A i \in TypedResult.submitted :
               The(unwrapped) =
                   Raised("ADCPSimpleError",
                          "Task submitted for async processing. Webhook: " \o i.webhook_url)

\* C22: for a NEEDS_INPUT result that carries a clarification, _unwrap
\* raises ADCPSimpleError with the clarification message in its message; for
\* a FAILED result with an error it raises 'Task failed: <error>'.
C22_DetailInMessage ==
    unwrapped # Nothing =>
        /\ TypedResult.status = "needs_input" =>
               /\ The(unwrapped).kind = "raise"
               /\ The(unwrapped).exc = "ADCPSimpleError"
               /\ \A i \in TypedResult.needs_input :
                      The(unwrapped).msg = "Agent needs input: " \o i.message
        /\ TypedResult.status = "failed" =>
               /\ The(unwrapped).kind = "raise"
               /\ The(unwrapped).exc = "ADCPSimpleError"
               /\ \A e \in TypedResult.error :
                      The(unwrapped).msg = <<"Task failed", Some(e)>>

\* C22 happens: _unwrap was given a NEEDS_INPUT result with a clarification
\* and raised with it.
C22_NeedsInputRaised ==
    /\ unwrapped # Nothing
    /\ TypedResult.status = "needs_input"
    /\ TypedResult.needs_input # Nothing
    /\ The(unwrapped) = Raised("ADCPSimpleError", "Agent needs input: which budget?")

\* The reply has no artifact, or its last artifact has no data part.
NoDataPart(body) ==
    \/ body.artifacts = <<>>
    \/ SelectSeq(body.artifacts[Len(body.artifacts)].parts, LAMBDA p : p.kind = "data") = <<>>

\* C25: a reply without artifacts, or whose last artifact has no parts or
\* no data part, does not make the call raise: the extracted payload is the
\* reply itself, for every status of the reply.
C25_FallbackToReply ==
    (A2AAnswered /\ NoDataPart(Body)) =>
        /\ The(raw_result).kind = "return"
        /\ ExtractResult(Body) = Some(Body)
        /\ (Raw.status # "failed" => Raw.data = Some(Body))

\* C25 happens: a 'completed' reply with no artifacts came back COMPLETED
\* with the reply as data.
C25_NoArtifacts ==
    /\ A2AAnswered
    /\ Body = Object(Str("completed"), <<>>)
    /\ Raw.status = "completed"
    /\ Raw.data = Some(Body)

\* The headers of the request that are not the content type.
SentAuth == {h \in The(sent).headers : h.name # "Content-Type"}

\* C26: both adapters send no auth header when no token is configured, and
\* otherwise exactly one, under the configured header name: 'Bearer <token>'
\* when the auth type is bearer, the token itself for any other auth type.
C26_AuthHeader ==
    sent # Nothing =>
        IF agent_config.auth_token \in {Nothing, Some("")}
        THEN SentAuth = {}
        ELSE SentAuth =
                 { [name |-> agent_config.auth_header,
                    value |-> IF agent_config.auth_type = "bearer"
                              THEN "Bearer " \o The(agent_config.auth_token)
                              ELSE The(agent_config.auth_token)] }

\* C26 happens: the MCP adapter sent a bearer token under the configured
\* header name.
C26_McpBearer ==
    /\ sent # Nothing
    /\ agent_config.protocol = "mcp"
    /\ agent_config.auth_type = "bearer"
    /\ The(sent).headers = {[name |-> "Authorization", value |-> "Bearer s3cret"]}

\* C27: with the debug flag off no result of an adapter carries debug info,
\* on the success path and on the failure path, before and after the
\* normalizer; a result carries debug info only if the flag is on.
C27_DebugOnlyIfFlag ==
    input.kind \in {"a2a", "mcp"} =>
        /\ (raw_result # Nothing /\ The(raw_result).kind = "return") =>
               (Raw.debug_info # Nothing => agent_config.debug)
        /\ (typed_result # Nothing /\ The(typed_result).kind = "return") =>
               (TypedResult.debug_info # Nothing => agent_config.debug)

\* C27 happens: with debug off the A2A call failed at the HTTP level and
\* returned FAILED without debug info.
C27_DebugOffFailure ==
    /\ input.kind = "a2a"
    /\ ~agent_config.debug
    /\ HasToken(agent_config)
    /\ input.reply.kind = "ReadTimeout"
    /\ raw_result # Nothing
    /\ Raw.status = "failed"
    /\ Raw.debug_info = Nothing

\* The result of the A2A call carries a debug record.
A2ADebugged ==
    /\ input.kind = "a2a"
    /\ raw_result # Nothing
    /\ The(raw_result).kind = "return"
    /\ Raw.debug_info # Nothing

\* C28: the request headers kept in the debug record do not depend on the
\* token: they equal those of the same call made with any other token, the
\* value of the auth header is the mask, and no value holds the token.
C28_TokenRedacted ==
    (A2ADebugged /\ HasToken(agent_config)) =>
        /\ \A token \in {Some("s3cret"), Some("t0ken")} :
               The(Raw.debug_info).request.headers =
                   DebugRequest([agent_config EXCEPT !.auth_token = token]).headers
        /\ \A h \in The(Raw.debug_info).request.headers :
               /\ h.name = agent_config.auth_header => h.value = "***"
               /\ h.value \notin { The(agent_config.auth_token),
                                   "Bearer " \o The(agent_config.auth_token) }

\* C28 happens: a call with a bearer token and debug on returned a result
\* whose debug record has the masked Authorization header.
C28_MaskedBearer ==
    /\ A2ADebugged
    /\ agent_config.auth_token = Some("s3cret")
    /\ agent_config.auth_type = "bearer"
    /\ The(Raw.debug_info).request.headers =
           { [name |-> "Content-Type", value |-> "application/json"],
             [name |-> "Authorization", value |-> "***"] }

\* The agent-card fetch failed and the method has ended.
CardFailed ==
    /\ input.kind = "card"
    /\ input.reply.kind # "card"
    /\ fetched # Nothing

\* C24: a failed agent-card fetch raises a classified error with its context:
\* 401 and 403 the authentication error with the agent's id and URI, a
\* timeout the timeout error with id, URI and the configured timeout, any
\* other HTTP failure the connection error with id and URI.
C24_ClassifiedWithContext ==
    CardFailed =>
        LET out == The(fetched)
            reply == input.reply
            id_uri == Kwargs(Some(agent_config.id), Some(agent_config.agent_uri), Nothing)
        IN  /\ out.kind = "raise"
            /\ out.exc = IF reply.kind = "HTTPStatusError" /\ reply.status \in {401, 403}
                         THEN "ADCPAuthenticationError"
                         ELSE IF reply.kind = "TimeoutException" THEN "ADCPTimeoutError"
                         ELSE "ADCPConnectionError"
            /\ out.context = IF reply.kind = "TimeoutException"
                             THEN [id_uri EXCEPT !.timeout = Some(agent_config.timeout)]
                             ELSE id_uri

\* C29: one session acquisition attempts the candidates of the list in
\* order and no more: at most two attempts, one only when the configured URI
\* ends in /mcp (with or without a trailing slash), a further attempt only
\* after the one before failed; the acquisition ends with a session after an
\* attempt that succeeded, or with an error after the last candidate failed.
C29_BoundedAttempts ==
    LET urls == UrlsToTry(agent_config.agent_uri)
    IN  /\ \A l \in AttemptLogs :
              /\ Len(l) <= 2
              /\ Len(l) <= Len(urls)
              /\ ~HasFallback => Len(l) <= 1
              /\ \A i \in 1 .. Len(l) :
                     /\ l[i].url = urls[i]
                     /\ i < Len(l) => l[i].outcome = Failed
        /\ result.attempts # <<>> =>
              LET last == result.attempts[Len(result.attempts)].outcome
              IN  /\ last # Pending
                  /\ last # Ok =>
                        /\ Len(result.attempts) = Len(urls)
                        /\ result.out = OnException(result.op, Classify(last), ClassifiedMsg(last))

\* C29 happens: the configured URI ends in /mcp without a trailing slash, its
\* only candidate failed and list_tools raised after that one attempt.
C29_SingleCandidateFailed ==
    /\ agent_config.agent_uri = <<"https", "h", "/", "m", "c", "p">>
    /\ result.op = "list_tools"
    /\ Len(result.attempts) = 1
    /\ result.attempts[1].outcome \in ErrMsgs
    /\ result.out.kind = "raise"

\* C23: every operation of an adapter that has begun ends, by returning or
\* by raising, as long as the awaits bounded by the configured timeout
\* resume.
C23_BoundedByTimeout ==
    \A t \in Tasks : (pc[t] # "idle") ~> (pc[t] = "idle")

\* The clients that were created and on which aclose() was never called.
LiveClients == {c \in ClientIds : clientState[c] = "open"}

\* C30: at any time the A2A adapter has at most one live HTTP client, and it
\* is the one the adapter holds, so that every later call reuses it.
C30_OneClientReused ==
    /\ Cardinality(LiveClients) <= 1
    /\ \A c \in LiveClients : client = c

\* C37: _unwrap raises only for results that are not COMPLETED: a COMPLETED
\* result with data gives that data, whatever its success flag, and a result
\* for which _unwrap raises is not COMPLETED.
C37_RaisesOnlyNonCompleted ==
    (input.kind \in {"a2a", "mcp"} /\ unwrapped # Nothing) =>
        /\ (TypedResult.status = "completed" /\ TypedResult.data # Nothing) =>
               The(unwrapped) = Returned(The(TypedResult.data))
        /\ The(unwrapped).kind = "raise" => TypedResult.status # "completed"

\* C33: a caller only ever sends its request over a session whose
\* initialize() has returned: no session handed out by _get_session is still
\* being initialized or failed to initialize.
C33_OnlyInitializedSessions ==
    \A t \in Tasks : pc[t] = "calling" => loc[t].session \in heap.init

\* The operation that just ended made a session acquisition in which every
\* candidate URL failed.
AllCandidatesFailed ==
    /\ result.attempts # <<>>
    /\ result.attempts[Len(result.attempts)].outcome # Ok

\* C34: after an acquisition that failed on every candidate the adapter has
\* no session and no exit stack, and the call that begins next makes a new
\* acquisition from its start: a fresh exit stack and a first attempt against
\* the configured URI.
C34_BackToDisconnected ==
    /\ [](AllCandidatesFailed => (session = None /\ exitStack = None))
    /\ [][ \A t \in Tasks :
             (/\ AllCandidatesFailed
              /\ pc[t] = "idle"
              /\ op'[t] \in {"call_tool", "list_tools"}) =>
                 /\ pc'[t] = "transport"
                 /\ heap.state[exitStack'] = "none"
                 /\ heap'.state[exitStack'] = "open"
                 /\ loc'[t].stack = exitStack'
                 /\ loc'[t].last_error = NoError
                 /\ Len(log'[t]) = 1
                 /\ log'[t][1].url = agent_config.agent_uri ]_vars

\* C34 happens: both candidates failed, the adapter is disconnected and a
\* further operation may begin.
C34_BothFailed ==
    /\ Len(result.attempts) = 2
    /\ result.attempts[2].outcome \in ErrMsgs
    /\ session = None
    /\ exitStack = None
    /\ ops < MaxOps

\* The contexts entered on some exit stack and not exited.
OpenContexts == UNION {heap.items[k] : k \in StackIds}

\* C35: with operations that do not overlap no transport context is leaked:
\* every open exit stack, and every context not exited yet, is the adapter's
\* own stack (a later close() closes it) or the stack of the attempt in
\* progress (its failure cleanup closes it), nothing was left open out of
\* reach, and when close() has returned the adapter holds no session and no
\* exit stack and nothing is open.
C35_NoLeak ==
    /\ heap.leaked = {}
    /\ \A k \in StackIds :
           (heap.state[k] = "open" \/ heap.items[k] # {}) =>
               \/ k = exitStack
               \/ \E t \in Tasks : pc[t] \in {"cleanup", "closing"} /\ loc[t].old_stack = k
    /\ result.op = "close" =>
           /\ session = None
           /\ exitStack = None
           /\ OpenStacks = {}
           /\ OpenContexts = {}

\* C35 happens: a close() of the MCP adapter that had an exit stack to tear
\* down has returned, and the adapter holds nothing.
C35_ClosedAfterSession ==
    /\ agent_config.protocol = "mcp"
    /\ result.op = "close"
    /\ result.teardown
    /\ session = None
    /\ exitStack = None
    /\ OpenContexts = {}

\* C36: when every candidate of its session acquisition failed, list_tools
\* raises the classified error (authentication, timeout or connection) to
\* its caller and returns nothing, where call_tool returns a FAILED result.
C36_ListToolsRaises ==
    AllCandidatesFailed =>
        LET e == result.attempts[Len(result.attempts)].outcome
        IN  /\ result.op = "list_tools" =>
                  /\ result.out = Raised(Classify(e), ClassifiedMsg(e))
                  /\ result.out.exc \in {"ADCPAuthenticationError", "ADCPTimeoutError",
                                         "ADCPConnectionError"}
            /\ result.op = "call_tool" =>
                  /\ result.out.kind = "return"
                  /\ result.out.value.status = "failed"

\* C36 happens: list_tools raised the timeout error after its only
\* candidate failed with a timeout.
C36_TimeoutRaised ==
    /\ result.op = "list_tools"
    /\ Len(result.attempts) = 1
    /\ result.out = Raised("ADCPTimeoutError", <<"Connection", "timeout", "Timeout">>)

\* C31: a fan-out over NumAgents agents returns a list of exactly NumAgents
\* results, slot i holding a result of agent i's own call whatever the order
\* in which the calls completed; the slot of an agent whose adapter could not
\* connect holds a FAILED result, and the fan-out raises nothing.
C31_PositionalResults ==
    fan.out # Nothing =>
        /\ The(fan.out).kind = "return"
        /\ DOMAIN The(fan.out).value = 1 .. NumAgents
        /\ \A i \in 1 .. NumAgents :
               /\ Returned(The(fan.out).value[i]) \in ClientOutcomes(fan.agents[i])
               /\ ConnectionFails(fan.agents[i]) =>
                      /\ The(fan.out).value[i].status = "failed"
                      /\ ~The(fan.out).value[i].success
                      /\ The(fan.out).value[i].error # Nothing

\* C31 happens: agent 2 cannot be connected to, agents 1 and 3 answer, the
\* call to agent 3 completed first, and the list has agent 2's FAILED result
\* between the two COMPLETED ones.
C31_MiddleAgentFailed ==
    /\ fan.out # Nothing
    /\ fan.order[1] = 3
    /\ ConnectionFails(fan.agents[2])
    /\ ~ConnectionFails(fan.agents[1])
    /\ ~ConnectionFails(fan.agents[3])
    /\ The(fan.out).kind = "return"
    /\ The(fan.out).value[1].status = "completed"
    /\ The(fan.out).value[2].status = "failed"
    /\ The(fan.out).value[3].status = "completed"

\* The adapter has opened nothing: no session, exit stack or HTTP client.
NothingOpened ==
    /\ session = None
    /\ exitStack = None
    /\ client = None
    /\ \A k \in StackIds : heap.state[k] = "none"
    /\ \A c \in ClientIds : clientState[c] = "none"

\* C32: close() has been invoked exactly once when the scope has been left,
\* after a body that returned and after a body that raised, and not before
\* the body ended; entering the scope opens no connection; once the scope is
\* left the adapter holds no session, exit stack or client.
C32_ClosedOnceOnExit ==
    /\ [](scope.phase \in {"outside", "inside"} => scope.closes = 0)
    /\ [](scope.phase \in {"exiting", "left"} =>
              /\ scope.closes = 1
              /\ scope.body \in {"returned", "raised"})
    /\ []((scope.phase = "inside" /\ ops = 0) => NothingOpened)
    /\ [](scope.phase = "left" =>
              /\ result.op = "close"
              /\ session = None /\ exitStack = None /\ client = None)
    /\ [][scope.phase = "outside" => UNCHANGED adapterVars]_vars

\* C32 happens: the scope was left after list_tools raised in its body, and
\* close() had been invoked once.
C32_LeftAfterRaise ==
    /\ scope.phase = "left"
    /\ scope.body = "raised"
    /\ scope.closes = 1
    /\ result.op = "close"

\* Coroutine i completes in this step.
Completes(i) == preview.tasks[i].pc # "done" /\ preview'.tasks[i].pc = "done"

\* C38: get_preview_data_for_manifest requests a preview only when the key
\* is not cached; the cache gains an entry only with a request that returned
\* a successful, non-empty preview; a failed, empty or raising request
\* returns None and leaves the cache unchanged; a cached entry is never
\* removed or replaced.
C38_CacheInvariants ==
    [][\A i \in 1 .. Len(preview.tasks) :
        /\ (~preview.tasks[i].requested /\ preview'.tasks[i].requested)
               => ~CacheHas(preview.cache, FormatKey(preview.formats[i]))
        /\ (Completes(i) /\ preview'.tasks[i].requested)
               => LET reply == The(preview'.tasks[i].reply)
                      key == FormatKey(preview.formats[i])
                  IN  IF HasPreview(reply)
                      THEN /\ <<key, PreviewData(reply)>> \in preview'.cache
                           /\ \A e \in preview'.cache \ preview.cache : e[1] = key
                      ELSE /\ The(preview'.tasks[i].out).preview_data = Nothing
                           /\ preview'.cache = preview.cache
        /\ (Completes(i) /\ ~preview'.tasks[i].requested) => preview'.cache = preview.cache
        /\ preview.cache \subseteq preview'.cache]_vars

\* C39: the list add_preview_urls_to_formats returns has one entry per input
\* format, entry i being format i's own dict whatever the order in which the
\* requests answered; a format whose request raised, failed or came back
\* empty has its entry without preview_data, and a format whose request
\* succeeded has the preview data of its own answer.
C39_OneEntryPerFormat ==
    preview.out # Nothing =>
        LET out == The(preview.out)
        IN  /\ Len(out) = Len(preview.formats)
            /\ \A i \in 1 .. Len(preview.formats) :
                LET task == preview.tasks[i]
                IN  /\ out[i].format = preview.formats[i]
                    /\ out[i] = The(task.out)
                    /\ (task.requested /\ ~HasPreview(The(task.reply)))
                           => out[i].preview_data = Nothing
                    /\ (task.requested /\ HasPreview(The(task.reply)))
                           => out[i].preview_data = Some(PreviewData(The(task.reply)))
                    /\ CreateSampleManifestForFormat(preview.formats[i]) = Nothing
                           => out[i].preview_data = Nothing

\* C39 happens: the list was returned after the requests answered in another
\* order than the formats', one of them by raising and a later format's with
\* a preview.
C39_RaisedAmongOthers ==
    /\ preview.out # Nothing
    /\ \E n \in 1 .. Len(preview.order) : preview.order[n] # n
    /\ \E i, j \in 1 .. Len(preview.formats) :
        /\ i < j
        /\ preview.formats[i] # preview.formats[j]
        /\ preview.tasks[i].requested
        /\ The(preview.tasks[i].reply).kind = "raise"
        /\ The(preview.out)[i].preview_data = Nothing
        /\ The(preview.out)[j].preview_data # Nothing

====
